--------------------------- MODULE Spec2Model ---------------------------
(***************************************************************************)
(* Verification model of the inventory dashboard's classification and      *)
(* aggregation core (ammar-work/eg-inventory-dashboard).                   *)
(*                                                                         *)
(* Conventions                                                             *)
(*  - Lengths (OD, WT) are exact decimals in units of 0.0001 mm            *)
(*    (273.0 mm = 2730000, 9.27 mm = 92700).  Python compares IEEE         *)
(*    doubles; the model compares the decimals the literals denote.        *)
(*  - Quantities (MT) are exact decimals in units of 0.0001 MT.            *)
(*  - A Python string is a sequence of one-character strings, so that      *)
(*    strip(), lower(), upper(), "in" and startswith() are computed.       *)
(*    Labels returned by the categorisers are written as TLA+ strings.     *)
(*  - A Python scalar read from a sheet cell is a record [k, v]:           *)
(*    k = "num" (int/float v), "numstr" (a string float() parses to v),    *)
(*    "nan" (float NaN), "null" (None) or "str" (a non-numeric string).    *)
(***************************************************************************)
EXTENDS Integers, Sequences, FiniteSets, TLC

VARIABLES
  od, wt, grade,            \* arguments of categorize_OD / categorize_WT_schedule
  od_category, wt_schedule, \* their results ("<pending>" before the call)
  SPECIFICATION_MAPPING,    \* the Specification -> Grade Type table loaded at import
  spec, combine_cs_as,      \* arguments of derive_grade_from_spec
  grade_type,               \* its result
  comparison_grade_type,    \* result of comparison_tab.derive_grade_from_spec
  spec_arg,                 \* the cell value last passed to the memoised derive_grade_from_spec
  derive_cache,             \* the entries its lru_cache holds
  calls,                    \* number of calls made to it
  stock_df, reservations_df, incoming_df,  \* the three sheets (sequences of rows)
  free_for_sale_df,         \* result of calculate_free_for_sale
  threshold_mt, top_n,      \* arguments of generate_priority_items
  priority_items,           \* its result (success, rows, error)
  specification,            \* argument of generate_heatmap_dataframe
  heatmap,                  \* its result (pivot table, metrics, error)
  df_filtered,              \* the categorised Free For Sale records of the specification
  file1_data, file2_data,   \* the two datasets given to create_comparison_data
  comparison_df,            \* its result
  spec_filter,              \* the specifications selected in the dashboard
  pivot_columns,            \* the WT_Schedule column list the dashboard builds for them
  pc,                       \* position of run_inventory_reporting_pipeline
  dry_run_email,            \* its argument
  EMAIL_RECIPIENTS,         \* the recipient list read from the environment
  priority_df,              \* the priority table of step 2 ("None", "empty" or "rows")
  spec_index,               \* position of the step-3 loop in PDF_SPECIFICATIONS
  heatmap_images_by_spec,   \* the specifications whose image was generated
  pdf_path, pdf_size,       \* the generated report and its size at the step-4 check
  html_body,                \* the email body of step 5
  send_email_calls,         \* number of calls of send_email in the run
  send_email_outcome,       \* what the call did ("sent", "failed", "raised")
  pipeline_result,          \* the (success, result) the run returns
  session_state,            \* st.session_state keys of the Compare Files tab
  file1_selection, file2_selection, dataset_selection,  \* the three select boxes
  dashboard_df              \* what get_comparison_data_for_dashboard returned last

cvars == <<od, wt, grade, od_category, wt_schedule>>

gvars ==
  <<SPECIFICATION_MAPPING, spec, combine_cs_as, grade_type, comparison_grade_type,
    spec_arg, derive_cache, calls>>

svars == <<stock_df, reservations_df, incoming_df>>

fvars == <<free_for_sale_df>>

pvars == <<threshold_mt, top_n, priority_items>>

hvars == <<specification, heatmap, df_filtered>>

kvars == <<file1_data, file2_data, comparison_df>>

rvars ==
  <<pc, dry_run_email, EMAIL_RECIPIENTS, priority_df, spec_index, heatmap_images_by_spec,
    pdf_path, pdf_size, html_body, send_email_calls, send_email_outcome,
    pipeline_result>>

tvars == <<session_state, file1_selection, file2_selection, dataset_selection, dashboard_df>>

dvars == <<spec_filter, pivot_columns, rvars, tvars>>

vars == <<cvars, gvars, svars, fvars, pvars, hvars, kvars, dvars>>

-----------------------------------------------------------------------------
(* Python built-ins used by the program                                    *)

Abs(x) == IF x < 0 THEN -x ELSE x

UpperLetters ==
  <<"A","B","C","D","E","F","G","H","I","J","K","L","M",
    "N","O","P","Q","R","S","T","U","V","W","X","Y","Z">>

LowerLetters ==
  <<"a","b","c","d","e","f","g","h","i","j","k","l","m",
    "n","o","p","q","r","s","t","u","v","w","x","y","z">>

\* str.lower() on one character
lower_char(c) ==
  IF \E i \in 1..26 : UpperLetters[i] = c
    THEN LowerLetters[CHOOSE i \in 1..26 : UpperLetters[i] = c]
    ELSE c

\* str.upper() on one character
upper_char(c) ==
  IF \E i \in 1..26 : LowerLetters[i] = c
    THEN UpperLetters[CHOOSE i \in 1..26 : LowerLetters[i] = c]
    ELSE c

lower(s) == [i \in 1..Len(s) |-> lower_char(s[i])]

upper(s) == [i \in 1..Len(s) |-> upper_char(s[i])]

RECURSIVE lstrip(_)
lstrip(s) == IF s # <<>> /\ Head(s) = " " THEN lstrip(Tail(s)) ELSE s

RECURSIVE rstrip(_)
rstrip(s) ==
  IF s # <<>> /\ s[Len(s)] = " " THEN rstrip(SubSeq(s, 1, Len(s) - 1)) ELSE s

\* str.strip()
strip(s) == rstrip(lstrip(s))

\* Python "sub in s"
contains(sub, s) ==
  \E i \in 1..(Len(s) - Len(sub) + 1) : SubSeq(s, i, i + Len(sub) - 1) = sub

\* str.startswith
startswith(s, p) == Len(s) >= Len(p) /\ SubSeq(s, 1, Len(p)) = p

\* the null string (None / NaN where a string is expected): pd.isna is true
NullStr == <<"<null>">>

isna_str(s) == s = NullStr

\* float(x): ok = FALSE when float() raises (TypeError on None, ValueError
\* on a non-numeric string)
to_float(x) ==
  [ok |-> x.k \in {"num", "int", "numstr", "nan"}, nan |-> x.k = "nan", v |-> x.v]

\* round half to even to a multiple of m (numpy.round / Series.round)
round_to(x, m) ==
  LET q == x \div m
      r == x % m
  IN  IF 2 * r < m THEN q * m
      ELSE IF 2 * r > m THEN (q + 1) * m
      ELSE IF q % 2 = 0 THEN q * m ELSE (q + 1) * m

\* the exception marker: a call that lets an exception escape
Raised == "<raised>"

Pending == "<pending>"

PendingStr == <<"<pending>">>

\* Python scalars (sheet cells)
Num(v) == [k |-> "num", v |-> v]

NumStr(v) == [k |-> "numstr", v |-> v]

NullVal == [k |-> "null", v |-> 0]

NaNVal == [k |-> "nan", v |-> 0]

StrVal == [k |-> "str", v |-> 0]

G_CS == <<"C","S">>

G_AS == <<"A","S">>

G_CS_AS == <<"C","S"," ","&"," ","A","S">>

G_SS == <<"S","S">>

G_IS == <<"I","S">>

G_Tubes == <<"T","u","b","e","s">>

G_TUBES == <<"T","U","B","E","S">>

G_Unknown == <<"U","n","k","n","o","w","n">>

\* a Python int (str() prints it without a decimal point)
PyInt(v) == [k |-> "int", v |-> v]

-----------------------------------------------------------------------------
(* Reference tables (literal data of the categorisers)                     *)

od_map_CS_AS ==
  <<
    <<103000, "1/8\"">>, <<137000, "1/4\"">>, <<171000, "3/8\"">>, <<213000, "1/2\"">>,
    <<267000, "3/4\"">>, <<334000, "1\"">>, <<422000, "1-1/4\"">>, <<483000, "1-1/2\"">>,
    <<603000, "2\"">>, <<730000, "2-1/2\"">>, <<889000, "3\"">>, <<1016000, "3-1/2\"">>,
    <<1143000, "4\"">>, <<1413000, "5\"">>, <<1683000, "6\"">>, <<2191000, "8\"">>,
    <<2730000, "10\"">>, <<2731000, "10\"">>, <<3238000, "12\"">>, <<3556000, "14\"">>,
    <<4064000, "16\"">>, <<4570000, "18\"">>, <<4572000, "18\"">>, <<5080000, "20\"">>,
    <<5590000, "22\"">>, <<6096000, "24\"">>, <<6100000, "24\"">>, <<6600000, "26\"">>,
    <<6604000, "26\"">>, <<7110000, "28\"">>, <<7112000, "28\"">>, <<7620000, "30\"">>,
    <<8130000, "32\"">>, <<8128000, "32\"">>, <<8640000, "34\"">>, <<8636000, "34\"">>,
    <<9140000, "36\"">>, <<9144000, "36\"">>, <<9650000, "38\"">>, <<9652000, "38\"">>,
    <<10160000, "40\"">>, <<10660000, "42\"">>, <<10668000, "42\"">>, <<10670000, "42\"">>,
    <<11180000, "44\"">>, <<11176000, "44\"">>, <<11680000, "46\"">>, <<11684000, "46\"">>,
    <<12190000, "48\"">>, <<12192000, "48\"">>, <<13210000, "52\"">>, <<14220000, "56\"">>,
    <<15240000, "60\"">>, <<16260000, "64\"">>, <<17270000, "68\"">>, <<18290000, "72\"">>,
    <<19300000, "76\"">>, <<20320000, "80\"">>
  >>

od_map_IS ==
  <<
    <<103200, "1/8\"">>, <<134900, "1/4\"">>, <<171000, "3/8\"">>, <<213000, "1/2\"">>,
    <<214300, "1/2\"">>, <<269000, "3/4\"">>, <<272000, "3/4\"">>, <<337000, "1\"">>,
    <<338000, "1\"">>, <<429000, "1-1/4\"">>, <<484000, "1-1/2\"">>, <<483000, "1-1/2\"">>,
    <<603000, "2\"">>, <<761000, "2-1/2\"">>, <<762000, "2-1/2\"">>, <<889000, "3\"">>,
    <<1143000, "4\"">>, <<1397000, "5\"">>, <<1651000, "6\"">>
  >>

od_map_Tube ==
  <<
    <<63500, "1/4\"">>, <<95300, "3/8\"">>, <<127000, "1/2\"">>, <<158800, "5/8\"">>,
    <<190500, "3/4\"">>, <<222300, "7/8\"">>, <<254000, "1\"">>, <<317500, "1-1/4\"">>,
    <<381000, "1-1/2\"">>, <<508000, "2\"">>, <<635000, "2-1/2\"">>, <<762000, "3\"">>,
    <<1016000, "4\"">>
  >>

carbon_bands ==
  <<
    [label |-> "STD", pairs |-> <<
      <<103000, 17300>>, <<137000, 22400>>, <<171000, 23100>>, <<213000, 27700>>,
      <<267000, 28700>>, <<334000, 33800>>, <<422000, 35600>>, <<483000, 36800>>,
      <<603000, 39100>>, <<730000, 51600>>, <<889000, 54900>>, <<1016000, 57400>>,
      <<1143000, 60200>>, <<1413000, 65500>>, <<1683000, 71100>>, <<2191000, 81800>>,
      <<2730000, 92700>>, <<2731000, 92700>>, <<3238000, 95300>>, <<3556000, 95300>>,
      <<4064000, 95300>>, <<4570000, 95300>>, <<4572000, 95300>>, <<5080000, 95300>>,
      <<5590000, 95300>>, <<5588000, 95300>>, <<6100000, 95300>>, <<6096000, 95300>>,
      <<6604000, 95300>>, <<7112000, 95300>>, <<7110000, 95300>>, <<7620000, 95300>>,
      <<8128000, 95300>>, <<8636000, 95300>>, <<9144000, 95300>>, <<9140000, 95300>>,
      <<9652000, 95300>>, <<10160000, 95300>>, <<10668000, 95300>>, <<11176000, 95300>>,
      <<11684000, 95300>>, <<12192000, 95300>>, <<12190000, 127000>>, <<15240000, 127000>> >>],
    [label |-> "XS", pairs |-> <<
      <<103000, 24100>>, <<137000, 30200>>, <<171000, 32000>>, <<213000, 37300>>,
      <<267000, 39100>>, <<334000, 45500>>, <<422000, 48500>>, <<483000, 50800>>,
      <<603000, 55400>>, <<730000, 70100>>, <<889000, 76200>>, <<1016000, 80800>>,
      <<1143000, 85600>>, <<1413000, 95300>>, <<1683000, 109700>>, <<2191000, 127000>>,
      <<2730000, 127000>>, <<2731000, 127000>>, <<3238000, 127000>>, <<3556000, 127000>>,
      <<4064000, 127000>>, <<4570000, 127000>>, <<5080000, 127000>>, <<5590000, 127000>>,
      <<6100000, 127000>>, <<6096000, 127000>>, <<6604000, 127000>>, <<7112000, 127000>>,
      <<7620000, 127000>>, <<8128000, 127000>>, <<8636000, 127000>>, <<9144000, 127000>>,
      <<9140000, 127000>>, <<9652000, 127000>>, <<10160000, 127000>>, <<10668000, 127000>>,
      <<11176000, 127000>>, <<11684000, 127000>>, <<12192000, 127000>>, <<12190000, 127000>>,
      <<15240000, 127000>> >>],
    [label |-> "SCH XXS", pairs |-> <<
      <<103000, 48300>>, <<137000, 60500>>, <<171000, 64000>>, <<213000, 74700>>,
      <<267000, 78200>>, <<334000, 90900>>, <<422000, 97000>>, <<483000, 101500>>,
      <<603000, 110700>>, <<730000, 140200>>, <<889000, 152400>>, <<1143000, 171200>>,
      <<1413000, 190500>>, <<1683000, 219500>>, <<2191000, 222300>>, <<2730000, 254000>>,
      <<2731000, 254000>>, <<3238000, 254000>> >>],
    [label |-> "SCH 10", pairs |-> <<
      <<103000, 12400>>, <<137000, 16500>>, <<171000, 16500>>, <<213000, 21100>>,
      <<267000, 21100>>, <<334000, 27700>>, <<422000, 27700>>, <<483000, 27700>>,
      <<603000, 27700>>, <<730000, 30500>>, <<889000, 30500>>, <<1016000, 30500>>,
      <<1143000, 30500>>, <<1413000, 34000>>, <<1683000, 34000>>, <<2191000, 37600>>,
      <<2730000, 41900>>, <<2731000, 41900>>, <<3238000, 45700>>, <<3556000, 63500>>,
      <<4064000, 63500>>, <<4570000, 63500>>, <<5080000, 63500>>, <<5590000, 63500>>,
      <<6100000, 63500>>, <<6096000, 63500>> >>],
    [label |-> "SCH 20", pairs |-> <<
      <<2191000, 63500>>, <<2730000, 63500>>, <<2731000, 63500>>, <<3238000, 63500>>,
      <<3238000, 71000>>, <<3556000, 79200>>, <<4064000, 79200>>, <<4570000, 79200>>,
      <<5080000, 95300>>, <<5590000, 95300>>, <<6100000, 95300>>, <<6096000, 95300>> >>],
    [label |-> "SCH 30", pairs |-> <<
      <<213000, 24100>>, <<267000, 24100>>, <<334000, 29000>>, <<422000, 29700>>,
      <<483000, 31800>>, <<603000, 31800>>, <<730000, 47800>>, <<889000, 47800>>,
      <<1016000, 47800>>, <<1143000, 47800>>, <<2191000, 70400>>, <<2730000, 78000>>,
      <<2731000, 78000>>, <<3238000, 83800>>, <<3556000, 95300>>, <<4064000, 95300>>,
      <<4570000, 111300>>, <<5080000, 127000>>, <<5590000, 127000>>, <<6100000, 142700>>,
      <<6096000, 142700>> >>],
    [label |-> "SCH 40", pairs |-> <<
      <<103000, 17300>>, <<137000, 22400>>, <<171000, 23100>>, <<213000, 27700>>,
      <<267000, 28700>>, <<334000, 33800>>, <<422000, 35600>>, <<483000, 36800>>,
      <<603000, 39100>>, <<730000, 51600>>, <<889000, 54900>>, <<1016000, 57400>>,
      <<1143000, 60200>>, <<1413000, 65500>>, <<1683000, 71100>>, <<2191000, 81800>>,
      <<2730000, 92700>>, <<2731000, 92700>>, <<3238000, 103100>>, <<3556000, 111300>>,
      <<3556000, 143000>>, <<4064000, 127000>>, <<4570000, 142700>>, <<5080000, 150900>>,
      <<6100000, 174800>>, <<6096000, 174800>> >>],
    [label |-> "SCH 60", pairs |-> <<
      <<2191000, 103100>>, <<2730000, 127000>>, <<2731000, 127000>>, <<3238000, 142700>>,
      <<3556000, 150900>>, <<4064000, 166600>>, <<4570000, 190500>>, <<4570000, 222300>>,
      <<5080000, 206200>>, <<5590000, 222300>>, <<6100000, 246100>>, <<6096000, 246100>> >>],
    [label |-> "SCH 80", pairs |-> <<
      <<103000, 24100>>, <<137000, 30200>>, <<171000, 32000>>, <<213000, 37300>>,
      <<267000, 39100>>, <<334000, 45500>>, <<422000, 48500>>, <<483000, 50800>>,
      <<603000, 55400>>, <<730000, 70100>>, <<889000, 76200>>, <<1016000, 80800>>,
      <<1143000, 85600>>, <<1413000, 95300>>, <<1683000, 109700>>, <<2191000, 127000>>,
      <<2730000, 150900>>, <<2731000, 150900>>, <<3238000, 174800>>, <<3556000, 190500>>,
      <<4064000, 214400>>, <<4570000, 238300>>, <<5080000, 261900>>, <<5590000, 285800>>,
      <<6100000, 309600>>, <<6096000, 309600>> >>],
    [label |-> "SCH 100", pairs |-> <<
      <<2191000, 150900>>, <<2730000, 182600>>, <<2731000, 182600>>, <<3238000, 214400>>,
      <<3556000, 238300>>, <<4064000, 261900>>, <<4570000, 293600>>, <<5080000, 325400>>,
      <<5590000, 349300>>, <<6100000, 388900>>, <<6096000, 388900>> >>],
    [label |-> "SCH 120", pairs |-> <<
      <<1143000, 111300>>, <<1413000, 127000>>, <<1683000, 142700>>, <<2191000, 182600>>,
      <<2730000, 214400>>, <<2731000, 214400>>, <<3238000, 254000>>, <<3556000, 277900>>,
      <<4064000, 309600>>, <<4570000, 349300>>, <<5080000, 381000>>, <<5590000, 412800>>,
      <<6100000, 460200>>, <<6096000, 460200>> >>],
    [label |-> "SCH 140", pairs |-> <<
      <<2191000, 206200>>, <<2730000, 254000>>, <<2731000, 254000>>, <<3238000, 285800>>,
      <<3556000, 317500>>, <<4064000, 365300>>, <<4570000, 396700>>, <<5080000, 444500>>,
      <<5590000, 476300>>, <<6100000, 523700>>, <<6096000, 523700>> >>],
    [label |-> "SCH 160", pairs |-> <<
      <<213000, 47800>>, <<267000, 55600>>, <<334000, 63500>>, <<422000, 63500>>,
      <<483000, 71400>>, <<603000, 87400>>, <<730000, 95300>>, <<889000, 111300>>,
      <<1143000, 134900>>, <<1413000, 158800>>, <<1683000, 182600>>, <<2191000, 230100>>,
      <<2730000, 285800>>, <<2731000, 285800>>, <<2731000, 320000>>, <<3238000, 333200>>,
      <<3556000, 357100>>, <<4064000, 404900>>, <<4570000, 452400>>, <<5080000, 500100>>,
      <<5590000, 539800>>, <<6100000, 595400>>, <<6096000, 595400>> >>]
  >>

stainless_bands ==
  <<
    [label |-> "Schedule 5S", pairs |-> <<
      <<103000, 12400>>, <<137000, 16500>>, <<171000, 16500>>, <<213000, 16500>>,
      <<267000, 16500>>, <<334000, 21100>>, <<422000, 21100>>, <<483000, 21100>>,
      <<603000, 27700>>, <<730000, 27700>>, <<889000, 27700>>, <<1143000, 27700>>,
      <<1413000, 34000>>, <<1683000, 34000>>, <<2191000, 37600>>, <<2730000, 41900>>,
      <<3238000, 45700>>, <<3556000, 47800>>, <<4064000, 47800>>, <<4570000, 47800>>,
      <<5080000, 55400>>, <<6100000, 63500>>, <<6096000, 63500>> >>],
    [label |-> "Schedule 10S", pairs |-> <<
      <<103000, 12400>>, <<137000, 16500>>, <<171000, 16500>>, <<213000, 21100>>,
      <<267000, 21100>>, <<334000, 27700>>, <<422000, 27700>>, <<483000, 27700>>,
      <<603000, 27700>>, <<730000, 30500>>, <<889000, 30500>>, <<1143000, 30500>>,
      <<1413000, 34000>>, <<1683000, 34000>>, <<2191000, 37600>>, <<2730000, 41900>>,
      <<3238000, 45700>>, <<3556000, 47800>>, <<4064000, 47800>>, <<4570000, 47800>>,
      <<5080000, 55400>>, <<6100000, 63500>>, <<6096000, 63500>> >>],
    [label |-> "Schedule 40S", pairs |-> <<
      <<103000, 17300>>, <<137000, 22400>>, <<171000, 23100>>, <<213000, 27700>>,
      <<267000, 28700>>, <<334000, 33800>>, <<422000, 35600>>, <<483000, 36800>>,
      <<603000, 39100>>, <<730000, 51600>>, <<889000, 54900>>, <<1016000, 57400>>,
      <<1143000, 60200>>, <<1413000, 65500>>, <<1683000, 71100>>, <<2191000, 81800>>,
      <<2730000, 92700>>, <<3238000, 95300>>, <<3556000, 95300>>, <<4064000, 95300>>,
      <<4570000, 95300>>, <<5080000, 95300>>, <<6100000, 95300>>, <<6096000, 95300>> >>],
    [label |-> "Schedule 80S", pairs |-> <<
      <<103000, 24100>>, <<137000, 30200>>, <<171000, 32000>>, <<213000, 37300>>,
      <<267000, 39100>>, <<334000, 45500>>, <<422000, 48500>>, <<483000, 50800>>,
      <<603000, 55400>>, <<730000, 70100>>, <<889000, 76200>>, <<1016000, 80800>>,
      <<1143000, 85600>>, <<1413000, 95300>>, <<1683000, 109700>>, <<2191000, 127000>>,
      <<2730000, 150900>>, <<2731000, 150900>>, <<3238000, 174800>>, <<3556000, 190500>>,
      <<4064000, 214400>>, <<4064000, 254000>>, <<4570000, 238300>>, <<5080000, 261900>>,
      <<5590000, 285800>>, <<6100000, 309600>>, <<6096000, 309600>> >>],
    [label |-> "Schedule 160S", pairs |-> <<
      <<213000, 47800>>, <<267000, 55600>>, <<334000, 63500>>, <<422000, 63500>>,
      <<483000, 71400>>, <<603000, 87400>>, <<730000, 95300>>, <<889000, 111300>>,
      <<1143000, 134900>>, <<1413000, 158800>>, <<1683000, 182600>>, <<2191000, 230100>>,
      <<2730000, 285800>>, <<3238000, 333200>>, <<3556000, 357100>>, <<4064000, 404900>>,
      <<4570000, 452400>>, <<5080000, 500100>>, <<5590000, 539800>>, <<6100000, 595400>>,
      <<6096000, 595400>> >>],
    [label |-> "SCH XXS", pairs |-> <<
      <<103000, 48300>>, <<137000, 60500>>, <<171000, 64000>>, <<213000, 74700>>,
      <<267000, 78200>>, <<334000, 90900>>, <<422000, 97000>>, <<483000, 101500>>,
      <<603000, 110700>>, <<730000, 140200>>, <<889000, 152400>>, <<1143000, 171200>>,
      <<1413000, 190500>>, <<1683000, 219500>>, <<2191000, 222300>>, <<2730000, 254000>>,
      <<3238000, 254000>> >>]
  >>

is_bands ==
  <<
    [label |-> "IS 1239: Light (A-Class)", pairs |-> <<
      <<103200, 18000>>, <<134900, 18000>>, <<171000, 18000>>, <<213000, 20000>>,
      <<214300, 20000>>, <<272000, 23500>>, <<337000, 26500>>, <<338000, 26500>>,
      <<429000, 26500>>, <<484000, 29000>>, <<483000, 29000>>, <<603000, 29000>>,
      <<762000, 32500>>, <<889000, 32500>>, <<1143000, 36500>> >>],
    [label |-> "IS 1239: Medium (B-Class)", pairs |-> <<
      <<103200, 20000>>, <<134900, 23500>>, <<171000, 23500>>, <<213000, 26500>>,
      <<214300, 26500>>, <<272000, 26500>>, <<338000, 32500>>, <<337000, 32500>>,
      <<429000, 32500>>, <<484000, 32500>>, <<483000, 32500>>, <<603000, 36500>>,
      <<762000, 36500>>, <<761000, 36000>>, <<889000, 40500>>, <<1143000, 45000>>,
      <<1397000, 48500>>, <<1651000, 48500>> >>],
    [label |-> "IS 1239: Heavy (C-Class)", pairs |-> <<
      <<103200, 26500>>, <<134900, 29000>>, <<171000, 29000>>, <<214300, 32500>>,
      <<272000, 32500>>, <<338000, 40500>>, <<337000, 40000>>, <<213000, 32000>>,
      <<429000, 40500>>, <<484000, 40500>>, <<483000, 40500>>, <<603000, 44700>>,
      <<762000, 44700>>, <<761000, 45000>>, <<889000, 48500>>, <<1143000, 54000>>,
      <<1397000, 54000>>, <<1651000, 54000>> >>]
  >>

tube_lists ==
  <<
    [label |-> "Small Wall Tube", pairs |-> <<
      <<63500, 7100>>, <<63500, 8900>>, <<95300, 8900>>, <<95300, 12400>>, <<127000, 8900>>,
      <<127000, 12400>>, <<158800, 8900>>, <<158800, 12400>>, <<158800, 16500>>,
      <<190500, 8900>>, <<190500, 12400>>, <<190500, 16500>>, <<222300, 12400>>,
      <<222300, 16500>>, <<254000, 12400>>, <<254000, 16500>>, <<317500, 12400>>,
      <<317500, 16500>>, <<317500, 21100>>, <<381000, 16500>>, <<381000, 21100>>,
      <<508000, 16500>>, <<508000, 21100>>, <<508000, 27700>>, <<635000, 16500>>,
      <<635000, 21100>>, <<635000, 27700>>, <<762000, 16500>>, <<762000, 21100>>,
      <<762000, 27700>>, <<1016000, 21100>>, <<1016000, 27700>> >>],
    [label |-> "Medium Wall Tube", pairs |-> <<
      <<63500, 12400>>, <<95300, 16500>>, <<127000, 16500>>, <<158800, 21100>>,
      <<190500, 21100>>, <<222300, 21100>>, <<254000, 21100>>, <<317500, 27700>>,
      <<381000, 27700>>, <<508000, 30500>>, <<635000, 30500>>, <<762000, 30500>>,
      <<1016000, 30500>> >>],
    [label |-> "Heavy Wall Tube", pairs |-> <<
      <<63500, 16500>>, <<95300, 21100>>, <<127000, 21100>>, <<158800, 27700>>,
      <<190500, 27700>>, <<222300, 27700>>, <<254000, 27700>>, <<317500, 30500>>,
      <<381000, 30500>>, <<508000, 34000>>, <<635000, 34000>>, <<762000, 34000>>,
      <<1016000, 34000>> >>],
    [label |-> "Non-Standard Tube", pairs |-> <<
      <<158800, 30500>>, <<190500, 30500>>, <<222300, 30500>>, <<254000, 30500>>,
      <<317500, 34000>>, <<381000, 34000>>, <<508000, 37300>>, <<635000, 37300>>,
      <<762000, 37300>>, <<1016000, 47800>> >>]
  >>
-----------------------------------------------------------------------------
(* OD categorisation                                                       *)

\* dict.get(key, default) on a table of <<key, label>> pairs
dict_get(tab, key, default) ==
  IF \E i \in 1..Len(tab) : tab[i][1] = key
    THEN tab[CHOOSE i \in 1..Len(tab) : tab[i][1] = key][2]
    ELSE default

\* od_lookup without its try/except: the failure of float() escapes
od_lookup_uncaught(tab, x, sentinel) ==
  LET f == to_float(x)
  IN  IF ~f.ok THEN Raised
      ELSE IF f.nan THEN sentinel
      ELSE dict_get(tab, f.v, sentinel)

\* try: od = float(od); return od_map.get(od, sentinel)  except: return sentinel
od_lookup(tab, x, sentinel) ==
  LET f == to_float(x)
  IN  IF ~f.ok THEN sentinel
      ELSE IF f.nan THEN sentinel
      ELSE dict_get(tab, f.v, sentinel)

categorize_OD_CS_AS(x) == od_lookup(od_map_CS_AS, x, "Non Standard OD")

categorize_OD_SS(x) == categorize_OD_CS_AS(x)

categorize_OD_IS(x) == od_lookup(od_map_IS, x, "Non Standard OD")

categorize_OD_Tube(x) == od_lookup(od_map_Tube, x, "Unknown OD")

\* categorize_OD with the "tube" test ahead of the "is" test
categorize_OD_tube_first(x, g) ==
  IF isna_str(g) THEN "Unknown Grade"
  ELSE LET grade_clean == lower(strip(g))
       IN  IF contains(<<"t","u","b","e">>, grade_clean) THEN categorize_OD_Tube(x)
           ELSE IF contains(<<"i","s">>, grade_clean) THEN categorize_OD_IS(x)
           ELSE IF contains(<<"s","s">>, grade_clean)
                   \/ contains(<<"s","t","a","i","n","l","e","s","s">>, grade_clean)
             THEN categorize_OD_SS(x)
           ELSE categorize_OD_CS_AS(x)

categorize_OD(x, g) ==
  IF isna_str(g) THEN "Unknown Grade"
  ELSE LET grade_clean == lower(strip(g))
       IN  IF contains(<<"i","s">>, grade_clean) THEN categorize_OD_IS(x)
           ELSE IF contains(<<"t","u","b","e">>, grade_clean) THEN categorize_OD_Tube(x)
           ELSE IF contains(<<"s","s">>, grade_clean)
                   \/ contains(<<"s","t","a","i","n","l","e","s","s">>, grade_clean)
             THEN categorize_OD_SS(x)
           ELSE categorize_OD_CS_AS(x)

-----------------------------------------------------------------------------
(* WT schedule categorisation                                              *)

OD_TOL == 10000

WT_TOL == 2000

\* abs(od - defined_od) <= 1.0 and abs(wt - defined_wt) <= 0.2
within_tolerance(o, w, p) == Abs(o - p[1]) <= OD_TOL /\ Abs(w - p[2]) <= WT_TOL

band_matches(band, o, w) ==
  \E i \in 1..Len(band.pairs) : within_tolerance(o, w, band.pairs[i])

\* first_band without the early return: the last matching band wins
first_band_last_match(bands, o, w, fallback) ==
  IF \E i \in 1..Len(bands) : band_matches(bands[i], o, w)
    THEN LET i == CHOOSE i \in 1..Len(bands) :
                    /\ band_matches(bands[i], o, w)
                    /\ \A j \in (i + 1)..Len(bands) : ~band_matches(bands[j], o, w)
         IN  bands[i].label
    ELSE fallback

\* the chain of "for ...: if ...: return label" loops, in source order
first_band(bands, o, w, fallback) ==
  IF \E i \in 1..Len(bands) : band_matches(bands[i], o, w)
    THEN LET i == CHOOSE i \in 1..Len(bands) :
                    /\ band_matches(bands[i], o, w)
                    /\ \A j \in 1..(i - 1) : ~band_matches(bands[j], o, w)
         IN  bands[i].label
    ELSE fallback

\* try: od = float(od); wt = float(wt)  except: return sentinel
\* NaN compares false with everything, so no loop returns
tolerance_categorize(bands, x, y, sentinel) ==
  LET fo == to_float(x)
      fw == to_float(y)
  IN  IF ~fo.ok \/ ~fw.ok THEN sentinel
      ELSE IF fo.nan \/ fw.nan THEN sentinel
      ELSE first_band(bands, fo.v, fw.v, sentinel)

categorize_carbon(x, y) == tolerance_categorize(carbon_bands, x, y, "Non STD")

\* categorize_stainless with the Schedule 10S loop ahead of the Schedule 5S loop
categorize_stainless_10S_first(x, y) ==
  tolerance_categorize(<<stainless_bands[2], stainless_bands[1]>>
                         \o SubSeq(stainless_bands, 3, Len(stainless_bands)),
                       x, y, "Non STD")

categorize_stainless(x, y) == tolerance_categorize(stainless_bands, x, y, "Non STD")

categorize_is(x, y) == tolerance_categorize(is_bands, x, y, "Non IS Standard")

\* exact membership "(od, wt) in [...]" in each list in turn
list_has(lst, o, w) == \E i \in 1..Len(lst.pairs) : lst.pairs[i] = <<o, w>>

\* categorize_WT_Tube matching within the pipe tolerances instead of exactly
categorize_WT_Tube_tolerant(x, y) ==
  LET fo == to_float(x)
      fw == to_float(y)
  IN  IF ~fo.ok \/ ~fw.ok THEN "Non-Standard Tube"
      ELSE IF fo.nan \/ fw.nan THEN "Non-Standard Tube"
      ELSE first_band(tube_lists, fo.v, fw.v, "Non-Standard Tube")

categorize_WT_Tube(x, y) ==
  LET fo == to_float(x)
      fw == to_float(y)
  IN  IF ~fo.ok \/ ~fw.ok THEN "Non-Standard Tube"
      ELSE IF fo.nan \/ fw.nan THEN "Non-Standard Tube"
      ELSE IF \E i \in 1..Len(tube_lists) : list_has(tube_lists[i], fo.v, fw.v)
        THEN tube_lists[CHOOSE i \in 1..Len(tube_lists) :
                          /\ list_has(tube_lists[i], fo.v, fw.v)
                          /\ \A j \in 1..(i - 1) : ~list_has(tube_lists[j], fo.v, fw.v)].label
      ELSE "Non-Standard Tube"

categorize_WT_schedule(x, y, g) ==
  IF isna_str(g) THEN "Unknown"
  ELSE LET grade_clean == lower(strip(g))
       IN  IF contains(<<"t","u","b","e">>, grade_clean) THEN categorize_WT_Tube(x, y)
           ELSE IF contains(<<"i","s">>, grade_clean) THEN categorize_is(x, y)
           ELSE IF \/ contains(<<"c","s">>, grade_clean)
                   \/ contains(<<"c","a","r","b","o","n">>, grade_clean)
                   \/ contains(<<"a","s">>, grade_clean)
                   \/ contains(<<"a","l","l","o","y">>, grade_clean)
             THEN categorize_carbon(x, y)
           ELSE IF contains(<<"s","s">>, grade_clean)
                   \/ contains(<<"s","t","a","i","n","l","e","s","s">>, grade_clean)
             THEN categorize_stainless(x, y)
           ELSE "Unknown"

-----------------------------------------------------------------------------
(* Grade derivation                                                        *)

\* derive_grade_from_spec with the prefix tests ahead of the embedded-IS test
derive_grade_prefix_first(s, combine, mapping) ==
  IF isna_str(s) THEN G_Unknown
  ELSE LET spec_str == strip(s)
           spec_upper == upper(spec_str)
       IN  IF spec_str \in DOMAIN mapping
             THEN LET gt == mapping[spec_str]
                  IN  IF combine /\ gt \in {G_AS, G_CS} THEN G_CS_AS
                      ELSE IF combine /\ gt = G_TUBES THEN G_Tubes
                      ELSE gt
           ELSE IF startswith(spec_upper, <<"A","S">>)
             THEN (IF combine THEN G_CS_AS ELSE G_AS)
           ELSE IF startswith(spec_upper, <<"C","S">>)
             THEN (IF combine THEN G_CS_AS ELSE G_CS)
           ELSE IF startswith(spec_upper, <<"S","S">>) THEN G_SS
           ELSE IF contains(<<"I","S">>, spec_upper) THEN G_IS
           ELSE IF /\ contains(<<"T">>, spec_upper) /\ ~startswith(spec_upper, <<"T">>)
                   /\ \E pattern \in { <<"T","U","B","E">>, <<"T","U","B">>,
                                       <<"S","T","5","2">>, <<"S","T","4","2">> } :
                        contains(pattern, spec_upper)
             THEN G_Tubes
           ELSE IF startswith(spec_upper, <<"T">>) THEN G_Tubes
           ELSE G_Unknown

derive_grade_from_spec(s, combine, mapping) ==
  IF isna_str(s) THEN G_Unknown
  ELSE LET spec_str == strip(s)
           spec_upper == upper(spec_str)
       IN  IF spec_str \in DOMAIN mapping
             THEN LET gt == mapping[spec_str]
                  IN  IF combine /\ gt \in {G_AS, G_CS} THEN G_CS_AS
                      ELSE IF combine /\ gt = G_TUBES THEN G_Tubes
                      ELSE gt
           ELSE IF contains(<<"I","S">>, spec_upper) /\ ~startswith(spec_upper, <<"I","S">>)
             THEN G_IS
           ELSE IF /\ contains(<<"T">>, spec_upper) /\ ~startswith(spec_upper, <<"T">>)
                   /\ \E pattern \in { <<"T","U","B","E">>, <<"T","U","B">>,
                                       <<"S","T","5","2">>, <<"S","T","4","2">> } :
                        contains(pattern, spec_upper)
             THEN G_Tubes
           ELSE IF startswith(spec_upper, <<"A","S">>)
             THEN (IF combine THEN G_CS_AS ELSE G_AS)
           ELSE IF startswith(spec_upper, <<"C","S">>)
             THEN (IF combine THEN G_CS_AS ELSE G_CS)
           ELSE IF startswith(spec_upper, <<"S","S">>) THEN G_SS
           ELSE IF startswith(spec_upper, <<"I","S">>) THEN G_IS
           ELSE IF startswith(spec_upper, <<"T">>) THEN G_Tubes
           ELSE G_Unknown

derive_grade_type_from_spec(s, mapping) == derive_grade_from_spec(s, TRUE, mapping)

\* comparison_tab.derive_grade_from_spec: the pattern rules alone
comparison_derive_grade_from_spec(s, combine) ==
  IF isna_str(s) THEN G_Unknown
  ELSE LET spec_upper == upper(strip(s))
       IN  IF contains(<<"I","S">>, spec_upper) /\ ~startswith(spec_upper, <<"I","S">>)
             THEN G_IS
           ELSE IF /\ contains(<<"T">>, spec_upper) /\ ~startswith(spec_upper, <<"T">>)
                   /\ \E pattern \in { <<"T","U","B","E">>, <<"T","U","B">>,
                                       <<"S","T","5","2">>, <<"S","T","4","2">> } :
                        contains(pattern, spec_upper)
             THEN G_Tubes
           ELSE IF startswith(spec_upper, <<"A","S">>)
             THEN (IF combine THEN G_CS_AS ELSE G_AS)
           ELSE IF startswith(spec_upper, <<"C","S">>)
             THEN (IF combine THEN G_CS_AS ELSE G_CS)
           ELSE IF startswith(spec_upper, <<"S","S">>) THEN G_SS
           ELSE IF startswith(spec_upper, <<"I","S">>) THEN G_IS
           ELSE IF startswith(spec_upper, <<"T">>) THEN G_Tubes
           ELSE G_Unknown

-----------------------------------------------------------------------------
(* Free For Sale aggregation (comparison_tab.calculate_free_for_sale)      *)

RECURSIVE SumSet(_, _)
\* Series.sum(): the sum of f[x] over the finite set S
SumSet(S, f) ==
  IF S = {} THEN 0
  ELSE LET x == CHOOSE x \in S : TRUE IN f[x] + SumSet(S \ {x}, f)

\* one sheet row
Row(s, o, w, m) == [Specification |-> s, OD |-> o, WT |-> w, MT |-> m]

\* df_copy['Type'] = t
tag(df, t) ==
  [i \in 1..Len(df) |->
     [Specification |-> df[i].Specification, OD |-> df[i].OD, WT |-> df[i].WT,
      MT |-> df[i].MT, Type |-> t]]

\* pd.concat of the non-empty tagged sheets, in the order Stock, Reservations, Incoming
all_data_of(s, r, i) == tag(s, "Stock") \o tag(r, "Reservations") \o tag(i, "Incoming")

\* pd.to_numeric(..., errors='coerce'): a float, or NaN for what does not parse
to_numeric(x) == IF x.k \in {"num", "int", "numstr"} THEN Num(x.v) ELSE NaNVal

\* Series.round(3) (NaN stays NaN)
round3(x) == IF x.k = "num" THEN Num(round_to(x.v, 10)) ELSE x

\* Series.fillna(0)
fillna0(x) == IF x.k = "nan" THEN Num(0) ELSE x

\* astype(str), replace('nan', ''), str.strip()
clean_spec(s) ==
  IF isna_str(s) \/ s = <<"n","a","n">> THEN <<>> ELSE strip(s)

clean_row(r) ==
  [Specification |-> clean_spec(r.Specification),
   OD |-> round3(to_numeric(r.OD)),
   WT |-> round3(to_numeric(r.WT)),
   MT |-> fillna0(to_numeric(r.MT)).v,
   Type |-> r.Type]

\* groupby drops the rows whose key has a NaN (dropna=True)
has_key(c) == c.OD.k # "nan" /\ c.WT.k # "nan"

key_of(c) == <<c.Specification, c.OD, c.WT>>

\* groupby(group_cols + ['Type'])['MT'].sum() for one group, rows taken in order
RECURSIVE group_sum(_, _, _)
group_sum(rows, key, type) ==
  IF rows = <<>> THEN 0
  ELSE (IF has_key(Head(rows)) /\ key_of(Head(rows)) = key /\ Head(rows).Type = type
          THEN Head(rows).MT ELSE 0)
       + group_sum(Tail(rows), key, type)

\* the formula with the sign of Incoming slipped
ffs_formula_incoming_subtracted(stock, reservations, incoming) ==
  stock - reservations - incoming

\* pivot_data['MT'] = Stock - Reservations + Incoming
ffs_formula(stock, reservations, incoming) == stock - reservations + incoming

\* the result rows for a concatenated, tagged frame
free_for_sale_from(all_data) ==
  LET cleaned == [i \in 1..Len(all_data) |-> clean_row(all_data[i])]
      keys == { key_of(cleaned[i]) : i \in { n \in 1..Len(cleaned) : has_key(cleaned[n]) } }
  IN  { [Specification |-> key[1], OD |-> key[2], WT |-> key[3],
         MT |-> Num(round_to(ffs_formula(group_sum(cleaned, key, "Stock"),
                                         group_sum(cleaned, key, "Reservations"),
                                         group_sum(cleaned, key, "Incoming")), 10))] :
        key \in keys }

\* a calculate_free_for_sale that looks at the Stock sheet alone
calculate_free_for_sale_stock_only(s, r, i) ==
  [done |-> TRUE, rows |-> free_for_sale_from(all_data_of(s, <<>>, <<>>))]

calculate_free_for_sale(s, r, i) ==
  [done |-> TRUE, rows |-> free_for_sale_from(all_data_of(s, r, i))]

-----------------------------------------------------------------------------
(* Values of the variables a specification does not use                    *)

PendingFrame == [done |-> FALSE, rows |-> <<>>]

\* no (success, result_df, error_msg) returned yet
PendingResult ==
  [done |-> FALSE, success |-> FALSE, none |-> TRUE, columns |-> <<>>, rows |-> <<>>,
   error_msg |-> "None"]

IdleClassify ==
  /\ od = NullVal /\ wt = NullVal /\ grade = NullStr
  /\ od_category = Pending /\ wt_schedule = Pending

\* nothing passed to the memoised function yet
IdleCache ==
  /\ spec_arg = [k |-> "text", v |-> 0, text |-> NullStr]
  /\ derive_cache = {}
  /\ calls = 0

IdleGrade ==
  /\ SPECIFICATION_MAPPING = <<>> /\ spec = NullStr /\ combine_cs_as = FALSE
  /\ grade_type = PendingStr /\ comparison_grade_type = PendingStr
  /\ IdleCache

IdleSheets == stock_df = <<>> /\ reservations_df = <<>> /\ incoming_df = <<>>

IdleFreeForSale == free_for_sale_df = PendingFrame

IdlePriority ==
  /\ threshold_mt = 0 /\ top_n = 0
  /\ priority_items = PendingResult

IdleHeatmap ==
  /\ specification = NullStr
  /\ heatmap = [done |-> FALSE]
  /\ df_filtered = PendingFrame

IdleCompare ==
  /\ file1_data = <<>> /\ file2_data = <<>>
  /\ comparison_df = PendingFrame


\* no run of the reporting pipeline
IdlePipeline ==
  /\ pc = "idle" /\ dry_run_email = FALSE /\ EMAIL_RECIPIENTS = <<>>
  /\ priority_df = "None" /\ spec_index = 0 /\ heatmap_images_by_spec = {}
  /\ pdf_path = "None" /\ pdf_size = 0 /\ html_body = "None"
  /\ send_email_calls = 0 /\ send_email_outcome = "None"
  /\ pipeline_result = [success |-> FALSE, result |-> Pending]

IdleSchedule ==
  /\ spec_filter = <<>>
  /\ pivot_columns = PendingStr

\* no comparison: the key comparison_data is absent from the session state
NoData == [file1 |-> "None", file2 |-> "None", dataset |-> "None"]

\* st.session_state before the Compare Files tab was first rendered (an absent
\* key and a key holding None are both written "None")
EmptySession ==
  [compare_file1_selection |-> "None", compare_file2_selection |-> "None",
   compare_dataset |-> "None", comparison_data |-> NoData,
   comparison_file1_name |-> "None", comparison_file2_name |-> "None",
   comparison_dataset_name |-> "None"]

IdleSession ==
  /\ session_state = EmptySession
  /\ file1_selection = "None" /\ file2_selection = "None" /\ dataset_selection = "None"
  /\ dashboard_df = NoData

IdleDashboard == IdleSchedule /\ IdlePipeline /\ IdleSession
-----------------------------------------------------------------------------
(* Inputs of the classification calls                                      *)

\* grade strings a mapping table or a sheet may carry besides the canonical ones
OtherGrades ==
  { <<>>,
    <<" ","s","s"," ">>,
    <<"S","t","a","i","n","l","e","s","s">>,
    <<"C","a","r","b","o","n">>,
    <<"A","l","l","o","y">>,
    <<"I","S"," ","T","u","b","e","s">>,
    <<"M","i","s","c">>,
    <<"B","r","a","s","s">>,
    <<"X">> }

CarbonGrades == {G_CS, G_AS, G_CS_AS}

StainlessGrades == {G_SS}

ISGrades == {G_IS}

TubeGrades == {G_Tubes, G_TUBES}

AllGrades ==
  {NullStr, G_Unknown} \cup CarbonGrades \cup StainlessGrades \cup ISGrades
    \cup TubeGrades \cup OtherGrades

SpecialODs ==
  { NullVal, NaNVal, StrVal, Num(-2730000), Num(0), Num(2730000), NumStr(2730000),
    Num(103000), Num(103200), Num(158800), Num(63500), Num(2730010) }

SpecialWTs ==
  { NullVal, NaNVal, StrVal, Num(-92700), Num(92700), NumStr(92700),
    Num(12400), Num(18000), Num(8900), Num(254000) }

all_pairs(bands) ==
  UNION { { bands[i].pairs[j] : j \in 1..Len(bands[i].pairs) } : i \in 1..Len(bands) }

OD_OFFSETS == {-10100, -10000, 0, 10000, 10100}

WT_OFFSETS == {-2100, -1900, 0, 1900, 2100}

carbon_pairs == all_pairs(carbon_bands)

stainless_pairs == all_pairs(stainless_bands)

is_pairs == all_pairs(is_bands)

tube_pairs == all_pairs(tube_lists)

\* A point whose WT lies exactly 0.2 from a reference WT: whether the double
\* difference compares <= 0.2 there is decided by IEEE rounding, which the
\* decimal model does not carry; such points are not drawn.
on_wt_boundary(pairs, o, w) ==
  \E p \in pairs : Abs(w - p[2]) = WT_TOL /\ Abs(o - p[1]) <= OD_TOL

\* every reference pair of a family, displaced to both sides of each tolerance
grid(pairs) ==
  { q \in { <<p[1] + a, p[2] + b>> : p \in pairs, a \in OD_OFFSETS, b \in WT_OFFSETS } :
      ~on_wt_boundary(pairs, q[1], q[2]) }

family_inputs(pairs, grades) ==
  { [od |-> Num(q[1]), wt |-> Num(q[2]), grade |-> g] : q \in grid(pairs), g \in grades }

\* the reference pairs themselves.  The two IS pairs that lie exactly 0.2 apart
\* in WT, (10.32, 1.80) and (10.32, 2.00), are among them: the double
\* difference 2.00 - 1.80 is 0.19999999999999996, which compares <= 0.2 as the
\* decimal difference does.
reference_inputs(pairs, grades) ==
  { [od |-> Num(p[1]), wt |-> Num(p[2]), grade |-> g] : p \in pairs, g \in grades }

ClassifyInputs ==
  { [od |-> a, wt |-> b, grade |-> g] : a \in SpecialODs, b \in SpecialWTs, g \in AllGrades }
    \cup family_inputs(carbon_pairs, {G_CS})
    \cup family_inputs(stainless_pairs, StainlessGrades)
    \cup family_inputs(is_pairs, ISGrades)
    \cup reference_inputs(is_pairs, ISGrades)
    \cup family_inputs(tube_pairs, {G_Tubes})

-----------------------------------------------------------------------------
(* Specification SpecClassify: one (od, wt, grade) triple is classified    *)

InitClassify ==
  /\ IdleGrade /\ IdleSheets /\ IdleFreeForSale /\ IdlePriority /\ IdleHeatmap /\ IdleCompare
  /\ IdleDashboard
  /\ \E in \in ClassifyInputs : od = in.od /\ wt = in.wt /\ grade = in.grade
  /\ od_category = Pending
  /\ wt_schedule = Pending

Call_categorize_OD ==
  /\ od_category = Pending
  /\ od_category' = categorize_OD(od, grade)
  /\ UNCHANGED <<od, wt, grade, wt_schedule>>
  /\ UNCHANGED <<gvars, svars, fvars, pvars, hvars, kvars, dvars>>

Call_categorize_WT_schedule ==
  /\ wt_schedule = Pending
  /\ wt_schedule' = categorize_WT_schedule(od, wt, grade)
  /\ UNCHANGED <<od, wt, grade, od_category>>
  /\ UNCHANGED <<gvars, svars, fvars, pvars, hvars, kvars, dvars>>

NextClassify == Call_categorize_OD \/ Call_categorize_WT_schedule

SpecClassify == InitClassify /\ [][NextClassify]_vars

-----------------------------------------------------------------------------
(* Inputs of the grade derivation                                          *)

S_CSEWPIS1239PT1 == <<"C","S","E","W","P","I","S","1","2","3","9","P","T","1">>

S_CSSMT2391ST52 == <<"C","S","S","M","T","2","3","9","1","S","T","5","2">>

S_CSSMP106B == <<"C","S","S","M","P","1","0","6","B">>

S_XTUBE == <<"X","T","U","B","E">>

S_CST42 == <<"C","S","T","4","2">>

S_SSTUB == <<"S","S","T","U","B">>

S_cssmp106b_lc == <<"c","s","s","m","p","1","0","6","b">>

S_CSX_padded == <<" ","C","S","X"," ">>

S_SS304 == <<"S","S","3","0","4">>

S_IS1239 == <<"I","S","1","2","3","9">>

S_TUBE1 == <<"T","U","B","E","1">>

S_ASA335 == <<"A","S","A","3","3","5">>

S_ewpis_lc == <<"e","w","p","i","s">>

S_X52 == <<"X","5","2">>

NamedSpecs ==
  { S_CSEWPIS1239PT1, S_CSSMT2391ST52, S_CSSMP106B, S_XTUBE, S_CST42,
    S_SSTUB, S_cssmp106b_lc, S_CSX_padded, S_SS304, S_IS1239,
    S_TUBE1, S_ASA335, S_ewpis_lc, S_X52 }

SpecAlphabet == {"I", "S", "T", "C", "A", "s", " ", "X"}

MaxSpecLen == 3

\* every string of at most MaxSpecLen characters of the alphabet
ShortSpecs == UNION { [1..n -> SpecAlphabet] : n \in 0..MaxSpecLen }

SpecInputs == {NullStr} \cup NamedSpecs \cup ShortSpecs

\* dict(zip(mapping_df['Specification'], mapping_df['Grade Type']))
MappingOf(pairs) ==
  [key \in { p[1] : p \in pairs } |-> (CHOOSE p \in pairs : p[1] = key)[2]]

EmptyMapping == MappingOf({})

\* a loaded table: canonical labels, "TUBES", a label outside the families,
\* and keys whose pattern-derived grade differs from the mapped one
SampleMapping ==
  MappingOf({ <<S_CSSMP106B, G_CS>>,
              <<<<"A","X">>, G_AS>>,
              <<<<"T">>, G_TUBES>>,
              <<<<"S","I","S">>, G_SS>>,
              <<<<"X">>, <<"P","i","p","e">>>> })

MappingChoices == {EmptyMapping, SampleMapping}

-----------------------------------------------------------------------------
(* Specification SpecGrade: one specification string is graded             *)

InitGrade ==
  /\ IdleClassify /\ IdleSheets /\ IdleFreeForSale /\ IdlePriority /\ IdleHeatmap /\ IdleCompare
  /\ IdleDashboard
  /\ SPECIFICATION_MAPPING \in MappingChoices
  /\ spec \in SpecInputs
  /\ combine_cs_as \in BOOLEAN
  /\ grade_type = PendingStr
  /\ comparison_grade_type = PendingStr
  /\ IdleCache

Call_derive_grade_from_spec ==
  /\ grade_type = PendingStr
  /\ grade_type' = derive_grade_from_spec(spec, combine_cs_as, SPECIFICATION_MAPPING)
  /\ UNCHANGED <<SPECIFICATION_MAPPING, spec, combine_cs_as, comparison_grade_type>>
  /\ UNCHANGED <<spec_arg, derive_cache, calls>>
  /\ UNCHANGED <<cvars, svars, fvars, pvars, hvars, kvars, dvars>>

Call_comparison_derive_grade_from_spec ==
  /\ comparison_grade_type = PendingStr
  /\ comparison_grade_type' = comparison_derive_grade_from_spec(spec, combine_cs_as)
  /\ UNCHANGED <<SPECIFICATION_MAPPING, spec, combine_cs_as, grade_type>>
  /\ UNCHANGED <<spec_arg, derive_cache, calls>>
  /\ UNCHANGED <<cvars, svars, fvars, pvars, hvars, kvars, dvars>>

NextGrade == Call_derive_grade_from_spec \/ Call_comparison_derive_grade_from_spec

SpecGrade == InitGrade /\ [][NextGrade]_vars

-----------------------------------------------------------------------------
(* Comparison of two inventory frames (comparison_tab.py)                  *)

DigitChars == <<"0","1","2","3","4","5","6","7","8","9">>

RECURSIVE int_digits(_)
\* the decimal digits of a natural number
int_digits(n) ==
  IF n < 10 THEN <<DigitChars[n + 1]>>
  ELSE Append(int_digits(n \div 10), DigitChars[(n % 10) + 1])

RECURSIVE strip_trailing_zeros(_)
strip_trailing_zeros(s) ==
  IF Len(s) > 1 /\ s[Len(s)] = "0" THEN strip_trailing_zeros(SubSeq(s, 1, Len(s) - 1))
  ELSE s

\* the four decimals of a value, shortest form, at least one digit
frac_digits(f) ==
  strip_trailing_zeros(<<DigitChars[(f \div 1000) + 1], DigitChars[((f \div 100) % 10) + 1],
                         DigitChars[((f \div 10) % 10) + 1], DigitChars[(f % 10) + 1]>>)

\* str(float): 273.0 -> "273.0", 9.27 -> "9.27"
float_repr(v) ==
  (IF v < 0 THEN <<"-">> ELSE <<>>) \o int_digits(Abs(v) \div 10000)
    \o <<".">> \o frac_digits(Abs(v) % 10000)

\* str(int): 273 -> "273"
int_repr(v) == (IF v < 0 THEN <<"-">> ELSE <<>>) \o int_digits(Abs(v) \div 10000)

\* str() of a cell; a numeric string is its own text, written as the float is
py_str(x) ==
  CASE x.k = "num" -> float_repr(x.v)
    [] x.k = "int" -> int_repr(x.v)
    [] x.k = "numstr" -> float_repr(x.v)
    [] x.k = "nan" -> <<"n","a","n">>
    [] x.k = "null" -> <<"N","o","n","e">>
    [] x.k = "bool" -> (IF x.v # 0 THEN <<"T","r","u","e">> ELSE <<"F","a","l","s","e">>)
    [] OTHER -> <<"x">>

\* str() of a Specification cell (a missing cell is NaN)
py_str_text(s) == IF isna_str(s) THEN <<"n","a","n">> ELSE s

create_product_key(row) ==
  strip(py_str_text(row.Specification)) \o <<"|">> \o strip(py_str(row.OD))
    \o <<"|">> \o strip(py_str(row.WT))

\* pd.to_numeric(MT, errors='coerce').fillna(0.0).round(3)
normalize_mt(x) == round3(fillna0(to_numeric(x))).v

\* file1_data with the columns product_key and mt_file1 added
add_columns_file1(df) ==
  [i \in 1..Len(df) |->
     [Specification |-> df[i].Specification, OD |-> df[i].OD, WT |-> df[i].WT,
      MT |-> df[i].MT, Grade |-> df[i].Grade,
      product_key |-> create_product_key(df[i]), mt_file1 |-> normalize_mt(df[i].MT)]]

\* file2_data with the columns product_key and mt_file2 added
add_columns_file2(df) ==
  [i \in 1..Len(df) |->
     [Specification |-> df[i].Specification, OD |-> df[i].OD, WT |-> df[i].WT,
      MT |-> df[i].MT, Grade |-> df[i].Grade,
      product_key |-> create_product_key(df[i]), mt_file2 |-> normalize_mt(df[i].MT)]]

\* required_cols
required_cols == {"Specification", "OD", "WT"}

\* df.columns; a frame without rows is one that has every column
frame_columns(df) ==
  IF df = <<>> THEN {"Specification", "OD", "WT", "MT", "Grade"} ELSE DOMAIN df[1]

\* [col for col in required_cols if col not in df.columns]
missing_cols(df) == required_cols \ frame_columns(df)

\* the first file gets its columns as soon as it has the required ones itself
file1_after_own_check(f1, f2) ==
  IF missing_cols(f1) = {} THEN add_columns_file1(f1) ELSE f1

\* file1_data as the call leaves it: untouched when the validation fails
file1_after(f1, f2) ==
  IF missing_cols(f1) = {} /\ missing_cols(f2) = {} THEN add_columns_file1(f1) ELSE f1

\* file2_data as the call leaves it
file2_after(f1, f2) ==
  IF missing_cols(f1) = {} /\ missing_cols(f2) = {} THEN add_columns_file2(f2) ELSE f2

product_keys(df) == { df[i].product_key : i \in 1..Len(df) }

\* the keys of the first file alone
all_keys_file1_only(f1, f2) == product_keys(f1)

\* set(file1 keys) | set(file2 keys)
all_keys(f1, f2) == product_keys(f1) \cup product_keys(f2)

rows_with_key(df, key) == SelectSeq(df, LAMBDA r : r.product_key = key)

RECURSIVE sum_seq(_)
sum_seq(s) == IF s = <<>> THEN 0 ELSE Head(s) + sum_seq(Tail(s))

TOLERANCE == 10

\* the comparison with the boundary value left out
status_of_delta_strict(delta) ==
  IF Abs(delta) < TOLERANCE THEN "Unchanged"
  ELSE IF delta > TOLERANCE THEN "Increased"
  ELSE "Decreased"

\* status of a key present in both files
status_of_delta(delta) ==
  IF Abs(delta) <= TOLERANCE THEN "Unchanged"
  ELSE IF delta > TOLERANCE THEN "Increased"
  ELSE "Decreased"

\* comparison_tab.categorize_OD (the tables are those of the dashboard)
comparison_categorize_OD(o, g) ==
  IF isna_str(g) THEN "Unknown Grade"
  ELSE LET grade_clean == lower(strip(g))
       IN  IF contains(<<"i","s">>, grade_clean) THEN od_lookup(od_map_IS, o, "Non Standard OD")
           ELSE IF contains(<<"t","u","b","e">>, grade_clean) THEN od_lookup(od_map_Tube, o, "Unknown OD")
           ELSE od_lookup(od_map_CS_AS, o, "Non Standard OD")

\* the first label whose upper limit the wall thickness does not exceed
RECURSIVE threshold_label(_, _, _)
threshold_label(limits, w, last) ==
  IF limits = <<>> THEN last
  ELSE IF ~w.nan /\ w.v <= Head(limits)[1] THEN Head(limits)[2]
  ELSE threshold_label(Tail(limits), w, last)

threshold_categorize(o, w, limits, last, fallback) ==
  IF ~to_float(o).ok \/ ~to_float(w).ok THEN fallback
  ELSE threshold_label(limits, to_float(w), last)

comparison_categorize_carbon(o, w) ==
  threshold_categorize(o, w,
    << <<30000, "SCH 10">>, <<50000, "STD">>, <<80000, "SCH 40">>, <<120000, "XS">>,
       <<200000, "SCH 80">> >>, "SCH 160", "Non STD")

comparison_categorize_stainless(o, w) ==
  threshold_categorize(o, w,
    << <<30000, "Schedule 5S">>, <<50000, "Schedule 10S">>, <<80000, "Schedule 40S">>,
       <<120000, "Schedule 80S">> >>, "Schedule 160S", "Non STD")

comparison_categorize_is(o, w) ==
  threshold_categorize(o, w,
    << <<25000, "IS 1239: Light (A-Class)">>, <<40000, "IS 1239: Medium (B-Class)">> >>,
    "IS 1239: Heavy (C-Class)", "Non IS Standard")

comparison_categorize_WT_Tube(o, w) ==
  threshold_categorize(o, w,
    << <<15000, "Small Wall Tube">>, <<30000, "Medium Wall Tube">> >>,
    "Heavy Wall Tube", "Non-Standard Tube")

comparison_categorize_WT_schedule(o, w, g) ==
  IF isna_str(g) THEN "Unknown"
  ELSE LET grade_clean == lower(strip(g))
       IN  IF contains(<<"t","u","b","e">>, grade_clean) THEN comparison_categorize_WT_Tube(o, w)
           ELSE IF contains(<<"i","s">>, grade_clean) THEN comparison_categorize_is(o, w)
           ELSE IF \/ contains(<<"c","s">>, grade_clean)
                   \/ contains(<<"c","a","r","b","o","n">>, grade_clean)
                   \/ contains(<<"a","s">>, grade_clean)
                   \/ contains(<<"a","l","l","o","y">>, grade_clean)
                  THEN comparison_categorize_carbon(o, w)
           ELSE IF \/ contains(<<"s","s">>, grade_clean)
                   \/ contains(<<"s","t","a","i","n","l","e","s","s">>, grade_clean)
                  THEN comparison_categorize_stainless(o, w)
           ELSE "Unknown"

\* one row of the comparison for a key (f1, f2 carry product_key and mt columns)
comparison_row(f1, f2, key) ==
  LET file1_rows == rows_with_key(f1, key)
      file2_rows == rows_with_key(f2, key)
      has_file1 == file1_rows # <<>>
      has_file2 == file2_rows # <<>>
      mt1 == IF has_file1
               THEN round_to(sum_seq([i \in 1..Len(file1_rows) |-> file1_rows[i].mt_file1]), 10)
               ELSE 0
      mt2 == IF has_file2
               THEN round_to(sum_seq([i \in 1..Len(file2_rows) |-> file2_rows[i].mt_file2]), 10)
               ELSE 0
      delta == IF ~has_file1 THEN mt2
               ELSE IF ~has_file2 THEN 0 - mt1
               ELSE round_to(mt2 - mt1, 10)
      status == IF ~has_file1 THEN "Added"
                ELSE IF ~has_file2 THEN "Removed"
                ELSE status_of_delta(delta)
      base_row == IF ~has_file1 THEN file2_rows[1] ELSE file1_rows[1]
      od_num == round3(to_numeric(base_row.OD))
      wt_num == round3(to_numeric(base_row.WT))
  IN  [product_key |-> key,
       status |-> status,
       old_stock |-> round_to(mt1, 10),
       new_stock |-> round_to(mt2, 10),
       delta |-> round_to(delta, 10),
       file1_name |-> "file1", file2_name |-> "file2",
       is_zero_difference |->
         has_file1 /\ has_file2 /\ Abs(delta) <= TOLERANCE
           /\ Abs(mt1) > TOLERANCE /\ Abs(mt2) > TOLERANCE,
       Specification |-> base_row.Specification,
       OD |-> od_num, WT |-> wt_num,
       Make |-> <<>>, Branch |-> <<>>, Add_Spec |-> <<>>,
       Grade |-> base_row.Grade,
       OD_Category |-> comparison_categorize_OD(od_num, base_row.Grade),
       WT_Schedule |-> comparison_categorize_WT_schedule(od_num, wt_num, base_row.Grade)]

\* the orders in which a set may be iterated
Orderings(S) ==
  { s \in [1..Cardinality(S) -> S] : \A i, j \in 1..Cardinality(S) : s[i] = s[j] => i = j }

\* the frames create_comparison_data may return for the two frames with keys
create_comparison_data(f1, f2) ==
  { [done |-> TRUE, rows |-> [i \in 1..Len(order) |-> comparison_row(f1, f2, order[i])]] :
      order \in Orderings(all_keys(f1, f2)) }


\* the frames the call may return: pd.DataFrame() when the validation raises
create_comparison_result(f1, f2) ==
  IF missing_cols(f1) = {} /\ missing_cols(f2) = {}
    THEN create_comparison_data(add_columns_file1(f1), add_columns_file2(f2))
  ELSE { [done |-> TRUE, rows |-> <<>>] }

-----------------------------------------------------------------------------
(* Specification SpecFreeForSale: three sheets are aggregated              *)

S_A == <<"A">>

S_A_padded == <<"A"," ">>

S_B == <<"B">>

\* rows a sheet may hold: the same product written with and without padding
\* and trailing digits, a second product, a non-numeric MT, a non-numeric OD
FFSRowChoices ==
  { Row(S_A, Num(2730000), Num(92700), Num(100000)),
    Row(S_A_padded, Num(2730004), NumStr(92700), Num(30004)),
    Row(S_A, PyInt(2730000), Num(92700), StrVal),
    Row(S_B, Num(2730000), Num(92700), Num(50006)),
    Row(S_A, StrVal, Num(92700), Num(70000)) }

MaxSheetRows == 3

\* three sheets holding at most n rows between them
SheetTriples(S, n) ==
  UNION { [1..a -> S] \X [1..b -> S] \X [1..c -> S] :
            <<a, b, c>> \in { l \in (0..n) \X (0..n) \X (0..n) : l[1] + l[2] + l[3] <= n } }

\* a sheet without the column c
drop_column(df, c) ==
  [k \in 1..Len(df) |-> [f \in DOMAIN df[k] \ {c} |-> df[k][f]]]

InitFreeForSale ==
  /\ IdleClassify /\ IdleGrade /\ IdlePriority /\ IdleHeatmap /\ IdleCompare
  /\ IdleDashboard
  /\ \E t \in SheetTriples(FFSRowChoices, MaxSheetRows) :
       stock_df = t[1] /\ reservations_df = t[2] /\ incoming_df = t[3]
  /\ free_for_sale_df = PendingFrame

Call_calculate_free_for_sale ==
  /\ ~free_for_sale_df.done
  /\ free_for_sale_df' = calculate_free_for_sale(stock_df, reservations_df, incoming_df)
  /\ UNCHANGED svars
  /\ UNCHANGED <<cvars, gvars, pvars, hvars, kvars, dvars>>

NextFreeForSale == Call_calculate_free_for_sale

SpecFreeForSale == InitFreeForSale /\ [][NextFreeForSale]_vars

-----------------------------------------------------------------------------
(* Specification SpecCompare: two frames are compared                      *)

InventoryRow(s, o, w, m, g) ==
  [Specification |-> s, OD |-> o, WT |-> w, MT |-> m, Grade |-> g]

\* rows a file may hold: one product with quantities around the tolerance, the
\* same product padded and with a non-numeric MT, the same product with an
\* integer OD, and a second product with quantities below the tolerance
CompareRowChoices ==
  { InventoryRow(S_A, Num(2730000), Num(92700), Num(10000), G_CS),
    InventoryRow(S_A, Num(2730000), Num(92700), Num(10011), G_CS),
    InventoryRow(S_A, Num(2730000), Num(92700), Num(10009), G_CS),
    InventoryRow(S_A, Num(2730000), Num(92700), Num(25000), G_CS),
    InventoryRow(S_A_padded, NumStr(2730000), Num(92700), StrVal, G_CS),
    InventoryRow(S_A, PyInt(2730000), Num(92700), Num(10000), G_CS),
    InventoryRow(S_B, Num(213000), Num(27700), Num(4), G_SS),
    InventoryRow(S_B, Num(213000), Num(27700), Num(8), G_SS) }

MaxCompareRows == 3

\* two files holding at most n rows between them
FilePairs(S, n) ==
  UNION { [1..a -> S] \X [1..b -> S] :
            <<a, b>> \in { l \in (0..n) \X (0..n) : l[1] + l[2] <= n } }

InitCompare ==
  /\ IdleClassify /\ IdleGrade /\ IdleSheets /\ IdleFreeForSale /\ IdlePriority /\ IdleHeatmap
  /\ IdleDashboard
  /\ \E t \in FilePairs(CompareRowChoices, MaxCompareRows) :
       file1_data = t[1] /\ file2_data = t[2]
  /\ comparison_df = PendingFrame

Call_create_comparison_data ==
  /\ ~comparison_df.done
  /\ file1_data' = file1_after(file1_data, file2_data)
  /\ file2_data' = file2_after(file1_data, file2_data)
  /\ comparison_df' \in create_comparison_result(file1_data, file2_data)
  /\ UNCHANGED <<cvars, gvars, svars, fvars, pvars, hvars, dvars>>

NextCompare == Call_create_comparison_data

SpecCompare == InitCompare /\ [][NextCompare]_vars

-----------------------------------------------------------------------------
(* Specification SpecCompareShape: files that may lack a required column   *)

CompareDropChoices == {"", "Specification", "OD", "WT"}

MaxCompareShapeRows == 2

InitCompareShape ==
  /\ IdleClassify /\ IdleGrade /\ IdleSheets /\ IdleFreeForSale /\ IdlePriority /\ IdleHeatmap
  /\ IdleDashboard
  /\ \E t \in FilePairs(CompareRowChoices, MaxCompareShapeRows) :
       \E d \in CompareDropChoices \X CompareDropChoices :
         /\ file1_data = drop_column(t[1], d[1])
         /\ file2_data = drop_column(t[2], d[2])
  /\ comparison_df = PendingFrame

SpecCompareShape == InitCompareShape /\ [][NextCompare]_vars

-----------------------------------------------------------------------------
(* The memoised derive_grade_from_spec of the dashboard                    *)
(* (@lru_cache(maxsize=1024), typed=False)                                 *)

\* a Specification cell holding text
TextCell(t) == [k |-> "text", v |-> 0, text |-> t]

\* a Specification cell holding an int, a float or a bool
NumberCell(kind, n) == [k |-> kind, v |-> n, text |-> <<>>]

\* str(spec) for a cell that is not missing
cell_str(c) == IF c.k = "text" THEN c.text ELSE py_str([k |-> c.k, v |-> c.v])

\* the body of derive_grade_from_spec on a cell
derive_grade_uncached(c, combine, mapping) ==
  derive_grade_from_spec(cell_str(c), combine, mapping)

\* key equality of the cache: == of the arguments (1 == 1.0 == True, and
\* equal objects hash alike)
key_eq(a, b) ==
  IF a.k = "text" \/ b.k = "text" THEN a = b ELSE a.v = b.v

\* the entries stored under the key of (c, combine)
cache_hits(cache, c, combine) ==
  { e \in cache : key_eq(e.spec, c) /\ e.combine_cs_as = combine }

\* the value a call returns given the cache
cached_result(cache, c, combine, mapping) ==
  IF cache_hits(cache, c, combine) # {}
    THEN (CHOOSE e \in cache_hits(cache, c, combine) : TRUE).result
  ELSE derive_grade_uncached(c, combine, mapping)

\* the cache after the call: a miss stores the computed value
cache_after(cache, c, combine, mapping) ==
  IF cache_hits(cache, c, combine) # {} THEN cache
  ELSE cache \cup { [spec |-> c, combine_cs_as |-> combine,
                     result |-> derive_grade_uncached(c, combine, mapping)] }

S_304 == <<"3","0","4">>

S_True == <<"T","r","u","e">>

\* a mapping table that lists the specification 304 as text
NumericMapping == MappingOf({ <<S_304, G_SS>>, <<S_CSSMP106B, G_CS>> })

\* cells a Specification column read from a workbook may hold: text, a
\* missing cell, and numbers read as int, as float or as a boolean
CellChoices ==
  { TextCell(S_CSSMP106B), TextCell(S_304), TextCell(S_True), TextCell(NullStr),
    NumberCell("int", 3040000), NumberCell("num", 3040000),
    NumberCell("int", 10000), NumberCell("bool", 10000) }

MaxCalls == 3

InitMemo ==
  /\ IdleClassify /\ IdleSheets /\ IdleFreeForSale /\ IdlePriority /\ IdleHeatmap /\ IdleCompare
  /\ IdleDashboard
  /\ SPECIFICATION_MAPPING \in {EmptyMapping, NumericMapping}
  /\ spec = NullStr
  /\ combine_cs_as = FALSE
  /\ grade_type = PendingStr
  /\ comparison_grade_type = PendingStr
  /\ IdleCache

\* one call of the decorated function
Call_memoised_derive_grade_from_spec ==
  /\ calls < MaxCalls
  /\ \E c \in CellChoices, combine \in BOOLEAN :
       /\ spec_arg' = c
       /\ combine_cs_as' = combine
       /\ grade_type' = cached_result(derive_cache, c, combine, SPECIFICATION_MAPPING)
       /\ derive_cache' = cache_after(derive_cache, c, combine, SPECIFICATION_MAPPING)
  /\ calls' = calls + 1
  /\ UNCHANGED <<SPECIFICATION_MAPPING, spec, comparison_grade_type>>
  /\ UNCHANGED <<cvars, svars, fvars, pvars, hvars, kvars, dvars>>

NextMemo == Call_memoised_derive_grade_from_spec

SpecMemo == InitMemo /\ [][NextMemo]_vars

-----------------------------------------------------------------------------
(* Row and column orders of the heatmap (reporting/heatmap_generator.py)    *)

OD_ORDER ==
  << "1/8\"", "1/4\"", "3/8\"", "1/2\"", "3/4\"", "1\"", "1-1/4\"",
     "1-1/2\"", "2\"", "2-1/2\"", "3\"", "3-1/2\"", "4\"", "5\"", "6\"",
     "8\"", "10\"", "12\"", "14\"", "16\"", "18\"", "20\"", "22\"", "24\"",
     "26\"", "28\"", "30\"", "32\"", "34\"", "36\"", "38\"", "40\"", "42\"",
     "44\"", "46\"", "48\"", "52\"", "56\"", "60\"", "64\"", "68\"", "72\"",
     "76\"", "80\"", "Non Standard OD", "Non STD", "Unknown OD" >>

CS_AS_WT ==
  << "SCH 10", "SCH 20", "SCH 30", "STD", "SCH 40", "SCH 60", "XS", "SCH 80",
     "SCH 100", "SCH 120", "SCH 140", "SCH 160", "SCH XXS", "Non STD" >>

SS_WT ==
  << "Schedule 5S", "Schedule 10S", "Schedule 40S", "Schedule 80S",
     "Schedule 160S", "XXS", "Non STD" >>

IS_WT ==
  << "IS 1239: Light (A-Class)", "IS 1239: Medium (B-Class)",
     "IS 1239: Heavy (C-Class)", "7\" NB", "8\" NB", "10\" NB", "12\" NB",
     "14\" NB", "16\" NB", "18\" NB", "20\" NB", "Non IS Standard" >>

TUBES_WT ==
  << "Small Wall Tube", "Medium Wall Tube", "Heavy Wall Tube",
     "Non-Standard Tube" >>

\* every WT_Schedule label, in the order sorted() gives
WT_LABELS_SORTED ==
  << "10\" NB", "12\" NB", "14\" NB", "16\" NB", "18\" NB", "20\" NB",
     "7\" NB", "8\" NB", "Heavy Wall Tube", "IS 1239: Heavy (C-Class)",
     "IS 1239: Light (A-Class)", "IS 1239: Medium (B-Class)",
     "Medium Wall Tube", "Non IS Standard", "Non STD", "Non-Standard Tube",
     "SCH 10", "SCH 100", "SCH 120", "SCH 140", "SCH 160", "SCH 20",
     "SCH 30", "SCH 40", "SCH 60", "SCH 80", "SCH XXS", "STD",
     "Schedule 10S", "Schedule 160S", "Schedule 40S", "Schedule 5S",
     "Schedule 80S", "Small Wall Tube", "Unknown", "XS", "XXS" >>

-----------------------------------------------------------------------------
(* Heatmap table (reporting/heatmap_generator.generate_heatmap_dataframe)  *)

\* the members of a list
members(lst) == { lst[i] : i \in 1..Len(lst) }

\* [s for s in lst if s in present]
present_in_order(lst, present) == SelectSeq(lst, LAMBDA s : s \in present)

highlight_od_categories ==
  {"2\"", "4\"", "6\"", "8\"", "10\"", "12\"", "14\"", "16\"", "18\"", "20\""}

\* the Free For Sale rows of the specification with OD_Category and WT_Schedule
heatmap_records(s, r, i, specification_name, mapping) ==
  LET gt == derive_grade_type_from_spec(specification_name, mapping)
  IN  { [OD |-> x.OD, WT |-> x.WT, MT |-> fillna0(to_numeric(x.MT)).v,
         OD_Category |-> categorize_OD(x.OD, gt),
         WT_Schedule |-> categorize_WT_schedule(x.OD, x.WT, gt)] :
        x \in { y \in calculate_free_for_sale(s, r, i).rows :
                  strip(y.Specification) = strip(specification_name) } }

\* the WT columns: the family's list restricted to the labels present, or
\* every label present, sorted, for another grade type or an empty selection
wt_schedule_columns(records, gt) ==
  LET present == { x.WT_Schedule : x \in records }
      family == IF gt = G_CS_AS THEN present_in_order(CS_AS_WT, present)
                ELSE IF gt = G_SS THEN present_in_order(SS_WT, present)
                ELSE IF gt = G_IS THEN present_in_order(IS_WT, present)
                ELSE IF gt = G_Tubes THEN present_in_order(TUBES_WT, present)
                ELSE present_in_order(WT_LABELS_SORTED, present)
  IN  IF family = <<>> THEN present_in_order(WT_LABELS_SORTED, present) ELSE family

\* groupby([OD_Category, WT_Schedule])['MT'].sum() merged onto the base grid
pivot_cell(records, o, w) ==
  LET grp == { x \in records : x.OD_Category = o /\ x.WT_Schedule = w }
  IN  SumSet(grp, [x \in grp |-> x.MT])

\* the rows that are not all zero once rounded to 2 decimals
pivot_rows_of_rounded(records, cols) ==
  SelectSeq(OD_ORDER,
            LAMBDA o : \E w \in members(cols) : round_to(pivot_cell(records, o, w), 100) # 0)

\* the rows of OD_ORDER that are not all zero
pivot_rows(records, cols) ==
  SelectSeq(OD_ORDER, LAMBDA o : \E w \in members(cols) : pivot_cell(records, o, w) # 0)

\* a row total taken over the cells as displayed
pivot_row_total_of_rounded(records, cols, o) ==
  SumSet(members(cols), [w \in members(cols) |-> round_to(pivot_cell(records, o, w), 100)])

\* pivot["Total"] = pivot.sum(axis=1)
pivot_row_total(records, cols, o) ==
  SumSet(members(cols), [w \in members(cols) |-> pivot_cell(records, o, w)])

\* col_total = pivot.sum(axis=0), for a WT column
pivot_col_total(records, rows, w) ==
  SumSet(members(rows), [o \in members(rows) |-> pivot_cell(records, o, w)])

\* col_total of the Total column
pivot_grand_total(records, rows, cols) ==
  SumSet(members(rows), [o \in members(rows) |-> pivot_row_total(records, cols, o)])

\* the table before rounding: data rows, Total column, Total row
pivot_value(records, rows, cols, o, w) ==
  IF o = "Total" /\ w = "Total" THEN pivot_grand_total(records, rows, cols)
  ELSE IF o = "Total" THEN pivot_col_total(records, rows, w)
  ELSE IF w = "Total" THEN pivot_row_total(records, cols, o)
  ELSE pivot_cell(records, o, w)

\* MT of the rows of one sheet that carry the specification
RECURSIVE sheet_total(_, _)
sheet_total(df, specification_name) ==
  IF df = <<>> THEN 0
  ELSE (IF /\ ~isna_str(Head(df).Specification)
           /\ strip(Head(df).Specification) = strip(specification_name)
          THEN fillna0(to_numeric(Head(df).MT)).v ELSE 0)
       + sheet_total(Tail(df), specification_name)

HeatmapError == [done |-> TRUE, error |-> TRUE]

generate_heatmap_dataframe(s, r, i, specification_name, mapping) ==
  IF isna_str(specification_name) \/ specification_name = <<>> THEN HeatmapError
  ELSE IF calculate_free_for_sale(s, r, i).rows = {} THEN HeatmapError
  ELSE
    LET records == heatmap_records(s, r, i, specification_name, mapping)
        gt == derive_grade_type_from_spec(specification_name, mapping)
        cols == wt_schedule_columns(records, gt)
        rows == pivot_rows(records, cols)
    IN  IF records = {} THEN HeatmapError
        ELSE [done |-> TRUE, error |-> FALSE,
              index |-> Append(rows, "Total"),
              columns |-> Append(cols, "Total"),
              starred |-> members(rows) \cap highlight_od_categories,
              values |->
                [o \in members(rows) \cup {"Total"} |->
                   [w \in members(cols) \cup {"Total"} |->
                      round_to(pivot_value(records, rows, cols, o, w), 100)]],
              metrics |->
                [stock |-> round_to(sheet_total(s, specification_name), 100),
                 reservation |-> round_to(sheet_total(r, specification_name), 100),
                 incoming |-> round_to(sheet_total(i, specification_name), 100),
                 free_for_sale |->
                   round_to(SumSet(records, [x \in records |-> x.MT]), 100)]]

-----------------------------------------------------------------------------
(* Priority items (reporting/priority_items_generator.py)                  *)

PRIORITY_THRESHOLD_MT == 300000

PRIORITY_TOP_N == 15

\* df.groupby('Specification')['MT'].sum() for one specification (NaN skipped)
RECURSIVE spec_sum(_, _)
spec_sum(df, s) ==
  IF df = <<>> THEN 0
  ELSE (IF Head(df).Specification = s THEN fillna0(to_numeric(Head(df).MT)).v ELSE 0)
       + spec_sum(Tail(df), s)

\* the group keys of a sheet (groupby drops the missing ones)
specs_of(df) ==
  { df[i].Specification : i \in { n \in 1..Len(df) : ~isna_str(df[n].Specification) } }

\* Total_Free_For_Sale_MT = (Stock_MT + Incoming_MT - Reservation_MT).round(2)
total_free_for_sale(s, r, i, sp) ==
  round_to(spec_sum(s, sp) + spec_sum(i, sp) - spec_sum(r, sp), 100)

\* DataFrame.head(n) for n >= 0
head(rows, n) == SubSeq(rows, 1, IF n < Len(rows) THEN n ELSE Len(rows))

\* required_columns
required_columns == {"Specification", "MT"}

\* df.columns of a sheet that has rows
columns_of(df) == DOMAIN df[1]

\* a non-empty sheet that lacks a required column
missing_required(df) == df # <<>> /\ required_columns \ columns_of(df) # {}

\* the columns of the table returned
result_columns == <<"Specification", "Total_Free_For_Sale_MT">>

\* (False, None, error_msg)
priority_failure(msg) ==
  [done |-> TRUE, success |-> FALSE, none |-> TRUE, columns |-> <<>>, rows |-> <<>>,
   error_msg |-> msg]

\* (True, result_df, None)
priority_success(rows) ==
  [done |-> TRUE, success |-> TRUE, none |-> FALSE, columns |-> result_columns,
   rows |-> rows, error_msg |-> "None"]

\* the (success, result_df, error_msg) triples generate_priority_items may return
generate_priority_items(s, r, i, threshold, n) ==
  IF missing_required(s) \/ missing_required(r) \/ missing_required(i)
    THEN { priority_failure("missing required columns") }
  ELSE
  LET all_specs == specs_of(s) \cup specs_of(r) \cup specs_of(i)
      filtered == { sp \in all_specs : total_free_for_sale(s, r, i, sp) >= threshold }
      sorted == { o \in Orderings(filtered) :
                    \A a, b \in 1..Len(o) :
                      a < b => total_free_for_sale(s, r, i, o[a])
                                 >= total_free_for_sale(s, r, i, o[b]) }
  IN  IF filtered = {} THEN { priority_success(<<>>) }
      ELSE IF n = 0 THEN { priority_failure("Error generating priority items") }
      ELSE { priority_success(
               head([k \in 1..Len(o) |->
                       [Specification |-> strip(o[k]),
                        Total_Free_For_Sale_MT |-> total_free_for_sale(s, r, i, o[k])]],
                    n)) :
             o \in sorted }

-----------------------------------------------------------------------------
(* Specification SpecPriority: the priority list is generated              *)

S_C == <<"C">>

S_D == <<"D">>

\* rows a sheet may hold: quantities 50, 30, 29.999 and 5 of four specifications
PriorityRowChoices ==
  { Row(S_A, Num(2730000), Num(92700), Num(500000)),
    Row(S_B, Num(2730000), Num(92700), Num(300000)),
    Row(S_C, Num(2730000), Num(92700), Num(299990)),
    Row(S_D, Num(2730000), Num(92700), Num(50000)) }

MaxPriorityRows == 4

ThresholdChoices == {PRIORITY_THRESHOLD_MT, 50000}

TopNChoices == {0, 2, PRIORITY_TOP_N}

InitPriority ==
  /\ IdleClassify /\ IdleGrade /\ IdleFreeForSale /\ IdleHeatmap /\ IdleCompare
  /\ IdleDashboard
  /\ \E t \in SheetTriples(PriorityRowChoices, MaxPriorityRows) :
       stock_df = t[1] /\ reservations_df = t[2] /\ incoming_df = t[3]
  /\ threshold_mt \in ThresholdChoices
  /\ top_n \in TopNChoices
  /\ priority_items = PendingResult

Call_generate_priority_items ==
  /\ ~priority_items.done
  /\ priority_items' \in
       generate_priority_items(stock_df, reservations_df, incoming_df, threshold_mt, top_n)
  /\ UNCHANGED <<svars, threshold_mt, top_n>>
  /\ UNCHANGED <<cvars, gvars, fvars, hvars, kvars, dvars>>

NextPriority == Call_generate_priority_items

SpecPriority == InitPriority /\ [][NextPriority]_vars

-----------------------------------------------------------------------------
(* Specification SpecPriorityShape: sheets that may lack a column          *)

\* the column a sheet lacks, if any
DropChoices == {"", "Specification", "MT", "OD"}

MaxShapeRows == 2

InitPriorityShape ==
  /\ IdleClassify /\ IdleGrade /\ IdleFreeForSale /\ IdleHeatmap /\ IdleCompare
  /\ IdleDashboard
  /\ \E t \in SheetTriples(PriorityRowChoices, MaxShapeRows) :
       \E d \in DropChoices \X DropChoices \X DropChoices :
         /\ stock_df = drop_column(t[1], d[1])
         /\ reservations_df = drop_column(t[2], d[2])
         /\ incoming_df = drop_column(t[3], d[3])
  /\ threshold_mt \in ThresholdChoices
  /\ top_n \in TopNChoices
  /\ priority_items = PendingResult

SpecPriorityShape == InitPriorityShape /\ [][NextPriority]_vars

-----------------------------------------------------------------------------
(* Specification SpecHeatmap: the heatmap of one specification is built    *)

S_CS == <<"C","S">>

S_SS == <<"S","S">>

S_T == <<"T">>

\* rows a sheet may hold: two carbon sizes of one OD with small quantities, a
\* stainless size and a stainless double-extra-strong size, two tube sizes
HeatmapRowChoices ==
  { Row(S_CS, Num(213000), Num(27700), Num(40)),
    Row(S_CS, Num(213000), Num(37300), Num(40)),
    Row(S_SS, Num(213000), Num(27700), Num(100000)),
    Row(S_SS, Num(213000), Num(74700), Num(100000)),
    Row(S_T, Num(158800), Num(10000), Num(100000)),
    Row(S_T, Num(254000), Num(10000), Num(100000)) }

MaxHeatmapRows == 3

SpecificationChoices == {S_CS, S_SS, S_T, <<>>}

InitHeatmap ==
  /\ IdleClassify /\ IdleGrade /\ IdleFreeForSale /\ IdlePriority /\ IdleCompare
  /\ IdleDashboard
  /\ \E t \in SheetTriples(HeatmapRowChoices, MaxHeatmapRows) :
       stock_df = t[1] /\ reservations_df = t[2] /\ incoming_df = t[3]
  /\ specification \in SpecificationChoices
  /\ heatmap = [done |-> FALSE]
  /\ df_filtered = PendingFrame

Call_generate_heatmap_dataframe ==
  /\ ~heatmap.done
  /\ heatmap' = generate_heatmap_dataframe(stock_df, reservations_df, incoming_df,
                                           specification, SPECIFICATION_MAPPING)
  /\ UNCHANGED <<svars, specification, df_filtered>>
  /\ UNCHANGED <<cvars, gvars, fvars, pvars, kvars, dvars>>

NextHeatmap == Call_generate_heatmap_dataframe

SpecHeatmap == InitHeatmap /\ [][NextHeatmap]_vars

-----------------------------------------------------------------------------
(* Specification SpecPath: the Free For Sale path of one specification     *)
(* (calculate_free_for_sale, the filter, add_categorizations)              *)

\* rows a sheet may hold: the product CSSMP106B 273.0 x 9.27 with 10, 5 and 3
\* tonnes, a second size of it and another specification of the same size
PathRowChoices ==
  { Row(S_CSSMP106B, Num(2730000), Num(92700), PyInt(100000)),
    Row(S_CSSMP106B, Num(2730000), Num(92700), PyInt(50000)),
    Row(S_CSSMP106B, Num(2730000), Num(92700), PyInt(30000)),
    Row(S_CSSMP106B, Num(2730000), Num(127000), PyInt(10000)),
    Row(S_SS304, Num(2730000), Num(92700), PyInt(70000)) }

MaxPathRows == 3

InitPath ==
  /\ IdleClassify /\ IdleGrade /\ IdleFreeForSale /\ IdlePriority /\ IdleCompare
  /\ IdleDashboard
  /\ \E t \in SheetTriples(PathRowChoices, MaxPathRows) :
       stock_df = t[1] /\ reservations_df = t[2] /\ incoming_df = t[3]
  /\ specification \in {S_CSSMP106B, S_SS304}
  /\ heatmap = [done |-> FALSE]
  /\ df_filtered = PendingFrame

\* steps 1 to 3 of generate_heatmap_dataframe
Call_add_categorizations ==
  /\ ~df_filtered.done
  /\ df_filtered' = [done |-> TRUE,
                     rows |-> heatmap_records(stock_df, reservations_df, incoming_df,
                                              specification, SPECIFICATION_MAPPING)]
  /\ UNCHANGED <<svars, specification, heatmap>>
  /\ UNCHANGED <<cvars, gvars, fvars, pvars, kvars, dvars>>

NextPath == Call_add_categorizations

SpecPath == InitPath /\ [][NextPath]_vars

-----------------------------------------------------------------------------
(* The WT_Schedule column list of the dashboard pivot                      *)
(* (streamlit_inventory_dashboard.py, the heatmap section)                 *)

S_All == <<"A","l","l">>

preferred_order_all ==
  << "SCH 10", "SCH 20", "SCH 30", "STD", "SCH 40", "SCH 60", "XS", "SCH 80",
     "SCH 100", "SCH 120", "SCH 140", "SCH 160", "SCH XXS", "Non STD",
     "Schedule 5S", "Schedule 10S", "Schedule 40S", "Schedule 80S",
     "Schedule 160S", "XXS",
     "IS 1239: Light (A-Class)", "IS 1239: Medium (B-Class)",
     "IS 1239: Heavy (C-Class)", "7\" NB", "8\" NB", "10\" NB", "12\" NB",
     "14\" NB", "16\" NB", "18\" NB", "20\" NB", "Non IS Standard",
     "Small Wall Tube", "Medium Wall Tube", "Heavy Wall Tube",
     "Non-Standard Tube" >>

cs_as_order ==
  << "SCH 10", "SCH 20", "SCH 30", "STD", "SCH 40", "SCH 60", "XS", "SCH 80",
     "SCH 100", "SCH 120", "SCH 140", "SCH 160", "SCH XXS", "Non STD" >>

ss_order ==
  << "Schedule 5S", "Schedule 10S", "Schedule 40S", "Schedule 80S",
     "Schedule 160S", "XXS", "Non STD" >>

is_order ==
  << "IS 1239: Light (A-Class)", "IS 1239: Medium (B-Class)",
     "IS 1239: Heavy (C-Class)", "7\" NB", "8\" NB", "10\" NB", "12\" NB",
     "14\" NB", "16\" NB", "18\" NB", "20\" NB", "Non IS Standard" >>

tubes_order ==
  << "Small Wall Tube", "Medium Wall Tube", "Heavy Wall Tube",
     "Non-Standard Tube" >>

\* the schedules one grade type contributes
schedules_of(gt) ==
  IF gt = G_CS_AS THEN present_in_order(cs_as_order, members(CS_AS_WT))
  ELSE IF gt = G_SS THEN present_in_order(ss_order, members(SS_WT))
  ELSE IF gt = G_IS THEN present_in_order(is_order, members(IS_WT))
  ELSE IF gt = G_Tubes THEN present_in_order(tubes_order, members(TUBES_WT))
  ELSE <<>>

\* wt_schedule.extend(...) for the grade types in the order they are visited
RECURSIVE extend_all(_)
extend_all(order) ==
  IF order = <<>> THEN <<>> ELSE schedules_of(Head(order)) \o extend_all(Tail(order))

\* [x for x in lst if not (x in seen or seen.add(x))]
RECURSIVE remove_duplicates(_, _)
remove_duplicates(lst, seen) ==
  IF lst = <<>> THEN <<>>
  ELSE IF Head(lst) \in seen THEN remove_duplicates(Tail(lst), seen)
  ELSE <<Head(lst)>> \o remove_duplicates(Tail(lst), seen \cup {Head(lst)})

\* grade_types: the set of grade types of the selected specifications
grade_types_of(filter, mapping) ==
  { derive_grade_type_from_spec(filter[i], mapping) :
      i \in { j \in 1..Len(filter) : filter[j] # S_All } }

\* the lists the selection code may build: `for grade_type in grade_types`
\* visits a set of strings, whose order is that of the string hashes
select_wt_schedule(filter, mapping) ==
  IF filter = <<>> \/ S_All \in members(filter)
    THEN { present_in_order(preferred_order_all,
                            members(CS_AS_WT \o SS_WT \o IS_WT \o TUBES_WT)) }
  ELSE { remove_duplicates(extend_all(order), {}) :
           order \in Orderings(grade_types_of(filter, mapping)) }

\* the specifications the multiselect offers
SpecFilterChoices == {S_All, S_CSSMP106B, S_ASA335, S_SS304, S_IS1239, S_TUBE1, S_X52}

MaxSelected == 3

\* a multiselect value: distinct choices in the order they were picked
Selections ==
  UNION { { f \in [1..n -> SpecFilterChoices] : \A i, j \in 1..n : f[i] = f[j] => i = j } :
            n \in 0..MaxSelected }

InitSchedule ==
  /\ IdleClassify /\ IdleGrade /\ IdleSheets /\ IdleFreeForSale /\ IdlePriority
  /\ IdleHeatmap /\ IdleCompare
  /\ IdlePipeline /\ IdleSession
  /\ spec_filter \in Selections
  /\ pivot_columns = PendingStr

Select_wt_schedule ==
  /\ pivot_columns = PendingStr
  /\ pivot_columns' \in select_wt_schedule(spec_filter, SPECIFICATION_MAPPING)
  /\ UNCHANGED spec_filter
  /\ UNCHANGED <<cvars, gvars, svars, fvars, pvars, hvars, kvars, rvars, tvars>>

NextSchedule == Select_wt_schedule

SpecSchedule == InitSchedule /\ [][NextSchedule]_vars

-----------------------------------------------------------------------------
(* reporting/orchestrator.py: run_inventory_reporting_pipeline              *)
(* One action per step of the run.  What a step's callee does (S3, Excel,   *)
(* image and PDF generation, SMTP) is a choice among the outcomes the step  *)
(* distinguishes.                                                           *)

PDF_SPECIFICATIONS ==
  <<"CSSMP106B", "ASSMPP11", "ASSMPP22", "ASSMPP9", "ASSMPP5", "ASSMPP91">>

\* the recipient lists config.py can build from the environment variable
RecipientLists == { <<>>, <<"a@x">>, <<"a@x", "b@x">> }

\* return False, error_msg
pipeline_failure == [success |-> FALSE, result |-> "error_msg"]

\* return True, pdf_path
pipeline_success(path) == [success |-> TRUE, result |-> path]

\* a failed or raising send_email fails the run
after_send_email_strict(outcome, path) ==
  IF outcome = "sent" THEN pipeline_success(path) ELSE pipeline_failure

\* what the run returns after send_email returned success, returned failure
\* or raised
after_send_email(outcome, path) ==
  CASE outcome = "failed" -> pipeline_success(path)
    [] outcome = "raised" -> pipeline_success(path)
    [] OTHER -> pipeline_success(path)

InitPipeline ==
  /\ IdleClassify /\ IdleGrade /\ IdleSheets /\ IdleFreeForSale /\ IdlePriority
  /\ IdleHeatmap /\ IdleCompare /\ IdleSchedule /\ IdleSession
  /\ pc = "step0"
  /\ dry_run_email \in BOOLEAN
  /\ EMAIL_RECIPIENTS \in RecipientLists
  /\ priority_df = "None" /\ spec_index = 1 /\ heatmap_images_by_spec = {}
  /\ pdf_path = "None" /\ pdf_size = 0 /\ html_body = "None"
  /\ send_email_calls = 0 /\ send_email_outcome = "None"
  /\ pipeline_result = [success |-> FALSE, result |-> Pending]

Return(r) ==
  /\ pc' = "done"
  /\ pipeline_result' = r

OtherGroups ==
  <<cvars, gvars, svars, fvars, pvars, hvars, kvars, spec_filter, pivot_columns, tvars>>

\* Steps 0 and 1: resolve the Excel file, load and validate the sheets
Step1_LoadData ==
  /\ pc = "step0"
  /\ \E outcome \in {"not found", "bad extension", "preprocess raised", "missing sheet",
                     "stock empty", "loaded"} :
       IF outcome = "loaded"
       THEN pc' = "step2" /\ UNCHANGED pipeline_result
       ELSE Return(pipeline_failure)
  /\ UNCHANGED <<dry_run_email, EMAIL_RECIPIENTS, priority_df, spec_index,
                 heatmap_images_by_spec, pdf_path, pdf_size, html_body, send_email_calls, send_email_outcome>>
  /\ UNCHANGED OtherGroups

\* Step 2: a failure or an exception leaves priority_df None and the run goes on
Step2_PriorityItems ==
  /\ pc = "step2"
  /\ priority_df' \in {"None", "empty", "rows"}
  /\ pc' = "step3"
  /\ UNCHANGED <<dry_run_email, EMAIL_RECIPIENTS, spec_index, heatmap_images_by_spec,
                 pdf_path, pdf_size, html_body, send_email_calls, send_email_outcome, pipeline_result>>
  /\ UNCHANGED OtherGroups

\* Step 3, one iteration of the loop over PDF_SPECIFICATIONS
Step3_Heatmap ==
  /\ pc = "step3"
  /\ spec_index <= Len(PDF_SPECIFICATIONS)
  /\ \E generated \in BOOLEAN :
       heatmap_images_by_spec' =
         IF generated THEN heatmap_images_by_spec \cup {PDF_SPECIFICATIONS[spec_index]}
         ELSE heatmap_images_by_spec
  /\ spec_index' = spec_index + 1
  /\ UNCHANGED <<pc, dry_run_email, EMAIL_RECIPIENTS, priority_df, pdf_path, pdf_size,
                 html_body, send_email_calls, send_email_outcome, pipeline_result>>
  /\ UNCHANGED OtherGroups

\* Step 3, after the loop: at least one image is required
Step3_Validate ==
  /\ pc = "step3"
  /\ spec_index > Len(PDF_SPECIFICATIONS)
  /\ IF heatmap_images_by_spec = {}
     THEN Return(pipeline_failure)
     ELSE pc' = "step4" /\ UNCHANGED pipeline_result
  /\ UNCHANGED <<dry_run_email, EMAIL_RECIPIENTS, priority_df, spec_index,
                 heatmap_images_by_spec, pdf_path, pdf_size, html_body, send_email_calls, send_email_outcome>>
  /\ UNCHANGED OtherGroups

\* Step 4: generate the PDF, then check that the file exists and is not empty
Step4_GeneratePdf ==
  /\ pc = "step4"
  /\ \E outcome \in {"failed", "raised", "missing", "empty", "written"} :
       CASE outcome \in {"failed", "raised"} ->
              /\ Return(pipeline_failure)
              /\ UNCHANGED <<pdf_path, pdf_size>>
         [] outcome = "missing" ->
              /\ Return(pipeline_failure)
              /\ pdf_path' = "report.pdf"
              /\ UNCHANGED pdf_size
         [] outcome = "empty" ->
              /\ Return(pipeline_failure)
              /\ pdf_path' = "report.pdf"
              /\ pdf_size' = 0
         [] OTHER ->
              /\ pdf_path' = "report.pdf"
              /\ pdf_size' = 1
              /\ pc' = "step5"
              /\ UNCHANGED pipeline_result
  /\ UNCHANGED <<dry_run_email, EMAIL_RECIPIENTS, priority_df, spec_index,
                 heatmap_images_by_spec, html_body, send_email_calls, send_email_outcome>>
  /\ UNCHANGED OtherGroups

\* Step 5 in a dry run: the body preview is generated (or fails, logged) and
\* the run falls through to the final return
Step5_DryRun ==
  /\ pc = "step5"
  /\ dry_run_email
  /\ priority_df' = IF priority_df = "rows" THEN "rows" ELSE "empty"
  /\ \E preview \in {"generated", "raised"} :
       html_body' = IF preview = "generated" THEN "preview" ELSE html_body
  /\ Return(pipeline_success(pdf_path))
  /\ UNCHANGED <<dry_run_email, EMAIL_RECIPIENTS, spec_index, heatmap_images_by_spec,
                 pdf_path, pdf_size, send_email_calls, send_email_outcome>>
  /\ UNCHANGED OtherGroups

\* Step 5 otherwise: build the body (fallback body when generation raises)
Step5_EmailBody ==
  /\ pc = "step5"
  /\ ~dry_run_email
  /\ priority_df' = IF priority_df = "rows" THEN "rows" ELSE "empty"
  /\ html_body' \in {"generated", "fallback"}
  /\ pc' = "validate"
  /\ UNCHANGED <<dry_run_email, EMAIL_RECIPIENTS, spec_index, heatmap_images_by_spec,
                 pdf_path, pdf_size, send_email_calls, send_email_outcome, pipeline_result>>
  /\ UNCHANGED OtherGroups

\* the recipient list and the attachment are checked before sending
Step5_ValidateEmail ==
  /\ pc = "validate"
  /\ \E exists \in BOOLEAN :
       IF Len(EMAIL_RECIPIENTS) = 0 \/ ~exists
       THEN Return(pipeline_success(pdf_path))
       ELSE pc' = "send" /\ UNCHANGED pipeline_result
  /\ UNCHANGED <<dry_run_email, EMAIL_RECIPIENTS, priority_df, spec_index,
                 heatmap_images_by_spec, pdf_path, pdf_size, html_body, send_email_calls, send_email_outcome>>
  /\ UNCHANGED OtherGroups

\* the one call of send_email
Step5_SendEmail ==
  /\ pc = "send"
  /\ send_email_calls' = send_email_calls + 1
  /\ \E outcome \in {"sent", "failed", "raised"} :
       /\ send_email_outcome' = outcome
       /\ Return(after_send_email(outcome, pdf_path))
  /\ UNCHANGED <<dry_run_email, EMAIL_RECIPIENTS, priority_df, spec_index,
                 heatmap_images_by_spec, pdf_path, pdf_size, html_body>>
  /\ UNCHANGED OtherGroups

NextPipeline ==
  \/ Step1_LoadData
  \/ Step2_PriorityItems
  \/ Step3_Heatmap
  \/ Step3_Validate
  \/ Step4_GeneratePdf
  \/ Step5_DryRun
  \/ Step5_EmailBody
  \/ Step5_ValidateEmail
  \/ Step5_SendEmail

SpecPipeline == InitPipeline /\ [][NextPipeline]_vars

\* the run is sequential code and each step returns, so a step that can be
\* taken is taken
SpecPipelineFair == SpecPipeline /\ WF_vars(NextPipeline)

-----------------------------------------------------------------------------
(* comparison_tab.py: render_comparison_tab and                             *)
(* get_comparison_data_for_dashboard over st.session_state.  A comparison   *)
(* is represented by what it was computed from: [file1, file2, dataset].    *)

\* labels of the files the bucket may list, oldest first
FileLabels == <<"2024-01-05 10:00 AM IST", "2024-02-05 10:00 AM IST", "2024-03-05 10:00 AM IST">>

\* file_info["last_modified"] of the file with the label
last_modified(label) == CHOOSE i \in 1..Len(FileLabels) : FileLabels[i] = label

available_datasets == <<"Stock", "Reservations", "Incoming", "Free for Sale">>

\* what list_available_files_from_s3 may return, as (available_files,
\* files_error): an error, no file, some files
Listings ==
  {[files |-> {}, error |-> TRUE]}
    \cup { [files |-> S, error |-> FALSE] : S \in SUBSET { FileLabels[i] : i \in 1..Len(FileLabels) } }

\* how loading and comparing the two files may end
LoadOutcomes ==
  {"file1_error", "file2_error", "bad_structure", "dataset_missing", "categorize_error",
   "comparison_empty", "loaded"}

\* del st.session_state.<key> for every key of the set
delete_keys(ss, keys) ==
  [k \in DOMAIN ss |->
     IF k \in keys THEN (IF k = "comparison_data" THEN NoData ELSE "None") ELSE ss[k]]

\* st.session_state.compare_file1_selection = None (and file 2)
clear_selections(ss) ==
  [ss EXCEPT !.compare_file1_selection = "None", !.compare_file2_selection = "None"]

AllComparisonKeys ==
  {"comparison_data", "comparison_file1_name", "comparison_file2_name",
   "comparison_dataset_name"}

\* a stored selection that is no longer listed is cleared with the comparison
drop_unavailable(ss, options) ==
  LET s1 == IF ss.compare_file1_selection # "None" /\ ss.compare_file1_selection \notin options
              THEN delete_keys([ss EXCEPT !.compare_file1_selection = "None"],
                               {"comparison_data", "comparison_file1_name",
                                "comparison_dataset_name"})
              ELSE ss
  IN  IF s1.compare_file2_selection # "None" /\ s1.compare_file2_selection \notin options
        THEN delete_keys([s1 EXCEPT !.compare_file2_selection = "None"],
                         {"comparison_data", "comparison_file2_name",
                          "comparison_dataset_name"})
        ELSE s1

\* the selected pair after the auto-sort: file 1 is the older one
auto_sorted(sel1, sel2) ==
  IF last_modified(sel1) > last_modified(sel2) THEN <<sel2, sel1>> ELSE <<sel1, sel2>>

has_cached_data(ss) ==
  /\ ss.comparison_data # NoData
  /\ ss.comparison_file1_name # "None"
  /\ ss.comparison_file2_name # "None"
  /\ ss.comparison_dataset_name # "None"

\* the session state after the two files were read and compared, or not
after_load(ss, sel1, sel2, ds, outcome) ==
  LET sorted == auto_sorted(sel1, sel2)
  IN  CASE outcome = "loaded" ->
             [ss EXCEPT !.comparison_data =
                          [file1 |-> sorted[1], file2 |-> sorted[2], dataset |-> ds],
                        !.comparison_file1_name = sorted[1],
                        !.comparison_file2_name = sorted[2],
                        !.comparison_dataset_name = ds,
                        !.compare_file1_selection = sel1,
                        !.compare_file2_selection = sel2]
        [] outcome = "dataset_missing" ->
             delete_keys(clear_selections(ss), AllComparisonKeys)
        [] OTHER ->
             delete_keys(clear_selections(ss), {"comparison_dataset_name"})

\* "Please select two different files for comparison."
same_file_selected(ss, selections_changed) ==
  IF selections_changed
    THEN delete_keys(clear_selections(ss), {"comparison_dataset_name"})
    ELSE ss

\* st.session_state after one run of render_comparison_tab with the listing,
\* the three select-box values and the load outcome
render_comparison_tab(ss, listing, sel1, sel2, ds, outcome) ==
  IF listing.error \/ listing.files = {} THEN ss
  ELSE
    LET initialised ==
          [ss EXCEPT !.compare_dataset = IF @ = "None" THEN "Stock" ELSE @]
        available == drop_unavailable(initialised, listing.files)
        stored == [available EXCEPT !.compare_dataset = ds]
        selections_changed ==
          \/ sel1 # available.compare_file1_selection
          \/ sel2 # available.compare_file2_selection
          \/ ds # available.comparison_dataset_name
    IN  IF sel1 # sel2
          THEN LET sorted == auto_sorted(sel1, sel2)
                   cached_data_valid ==
                     /\ has_cached_data(stored)
                     /\ stored.comparison_file1_name = sorted[1]
                     /\ stored.comparison_file2_name = sorted[2]
                     /\ stored.comparison_dataset_name = ds
                   need_to_reload == selections_changed \/ ~cached_data_valid
               IN  IF need_to_reload
                     THEN after_load(IF selections_changed
                                       THEN delete_keys(stored, AllComparisonKeys)
                                       ELSE stored,
                                     sel1, sel2, ds, outcome)
                     ELSE stored
          ELSE same_file_selected(stored, selections_changed)

\* the comparison get_comparison_data_for_dashboard returns (none when the key
\* comparison_data is absent)
get_comparison_data_for_dashboard(ss) == ss.comparison_data

-----------------------------------------------------------------------------
(* Specification SpecSession: the Compare Files tab is rendered again and  *)
(* again with any listing, any selection and any load outcome              *)

InitSession ==
  /\ IdleClassify /\ IdleGrade /\ IdleSheets /\ IdleFreeForSale /\ IdlePriority
  /\ IdleHeatmap /\ IdleCompare /\ IdleSchedule /\ IdlePipeline
  /\ IdleSession

SessionOthers ==
  <<cvars, gvars, svars, fvars, pvars, hvars, kvars, spec_filter, pivot_columns, rvars>>

\* one run of the tab followed by the dashboard's read of the comparison.
\* When the listing fails or is empty no select box is drawn; otherwise the
\* three select boxes hold any of their options.
Render_comparison_tab ==
  /\ \E listing \in Listings :
       IF listing.error \/ listing.files = {}
       THEN /\ session_state' =
                 render_comparison_tab(session_state, listing, file1_selection,
                                       file2_selection, dataset_selection, "loaded")
            /\ UNCHANGED <<file1_selection, file2_selection, dataset_selection>>
       ELSE \E sel1 \in listing.files, sel2 \in listing.files :
              \E i \in 1..Len(available_datasets), outcome \in LoadOutcomes :
                /\ file1_selection' = sel1
                /\ file2_selection' = sel2
                /\ dataset_selection' = available_datasets[i]
                /\ session_state' =
                     render_comparison_tab(session_state, listing, sel1, sel2,
                                           available_datasets[i], outcome)
  /\ dashboard_df' = get_comparison_data_for_dashboard(session_state')
  /\ UNCHANGED SessionOthers

NextSession == Render_comparison_tab

SpecSession == InitSession /\ [][NextSession]_vars

-----------------------------------------------------------------------------
(* Claims about the classification calls (checked under SpecClassify)      *)

IsNumeric(x) == x.k \in {"num", "int", "numstr"}

\* the band order the documentation gives for the Carbon/CS&AS family
C1_Order ==
  <<"STD", "XS", "SCH XXS", "SCH 10", "SCH 20", "SCH 30", "SCH 40", "SCH 60",
    "SCH 80", "SCH 100", "SCH 120", "SCH 140", "SCH 160">>

\* some reference pair listed under the label is within tolerance of (o, w)
label_matches(bands, lab, o, w) ==
  \E i \in 1..Len(bands) :
    bands[i].label = lab /\ \E p \in { bands[i].pairs[j] : j \in 1..Len(bands[i].pairs) } :
                               Abs(o - p[1]) <= 10000 /\ Abs(w - p[2]) <= 2000

pairs_of(bands, lab) ==
  UNION { { bands[i].pairs[j] : j \in 1..Len(bands[i].pairs) } :
            i \in { n \in 1..Len(bands) : bands[n].label = lab } }

\* C1: for a Carbon/CS&AS grade the WT schedule is the first label of the
\* order STD, XS, SCH XXS, SCH 10, ..., SCH 160 that has a reference pair within
\* tolerance (|od - ref| <= 1.0, |wt - ref| <= 0.2), else "Non STD"; a point
\* within tolerance of a pair listed under both STD and SCH 40 is "STD", and
\* (273.0, 9.27, "CS") is "STD".
C1_BandPrecedence ==
  (wt_schedule # Pending /\ grade \in CarbonGrades /\ IsNumeric(od) /\ IsNumeric(wt)) =>
    /\ \A i \in 1..Len(C1_Order) :
         (/\ label_matches(carbon_bands, C1_Order[i], od.v, wt.v)
          /\ \A j \in 1..(i - 1) : ~label_matches(carbon_bands, C1_Order[j], od.v, wt.v))
           => wt_schedule = C1_Order[i]
    /\ (\A i \in 1..Len(C1_Order) : ~label_matches(carbon_bands, C1_Order[i], od.v, wt.v))
         => wt_schedule = "Non STD"
    /\ \A p \in pairs_of(carbon_bands, "STD") \cap pairs_of(carbon_bands, "SCH 40") :
         (Abs(od.v - p[1]) <= 10000 /\ Abs(wt.v - p[2]) <= 2000) => wt_schedule = "STD"
    /\ (od.v = 2730000 /\ wt.v = 92700) => wt_schedule = "STD"

C1_Witness ==
  /\ grade = G_CS /\ od = Num(2730000) /\ wt = Num(92700)
  /\ wt_schedule = "STD"
  /\ <<2730000, 92700>> \in pairs_of(carbon_bands, "SCH 40")

\* the grade families the documentation names, by canonical grade label
C2_Family(g) ==
  IF g \in {G_CS, G_AS, G_CS_AS} THEN "CS&AS"
  ELSE IF g = G_SS THEN "SS"
  ELSE IF g = G_IS THEN "IS"
  ELSE IF g \in {G_Tubes, G_TUBES} THEN "Tubes"
  ELSE "other"

C2_ODSentinel(fam) == IF fam = "Tubes" THEN "Unknown OD" ELSE "Non Standard OD"

C2_WTSentinel(fam) ==
  IF fam \in {"CS&AS", "SS"} THEN "Non STD"
  ELSE IF fam = "IS" THEN "Non IS Standard"
  ELSE "Non-Standard Tube"

C2_ODTable(fam) ==
  IF fam = "IS" THEN od_map_IS ELSE IF fam = "Tubes" THEN od_map_Tube ELSE od_map_CS_AS

C2_WTPairs(fam) ==
  IF fam = "CS&AS" THEN carbon_pairs
  ELSE IF fam = "SS" THEN stainless_pairs
  ELSE IF fam = "IS" THEN is_pairs
  ELSE tube_pairs

C2_ODKeys(tab) == { tab[i][1] : i \in 1..Len(tab) }

C2_ODLabels(tab) == { tab[i][2] : i \in 1..Len(tab) }

\* no reference entry of the family matches the WT arguments
C2_NoWTMatch(fam, x, y) ==
  \/ ~IsNumeric(x) \/ ~IsNumeric(y)
  \/ IF fam = "Tubes"
       THEN <<x.v, y.v>> \notin tube_pairs
       ELSE \A p \in C2_WTPairs(fam) :
              ~(Abs(x.v - p[1]) <= 10000 /\ Abs(y.v - p[2]) <= 2000)

C2_WTKeywords ==
  { <<"t","u","b","e">>, <<"i","s">>, <<"c","s">>, <<"c","a","r","b","o","n">>,
    <<"a","s">>, <<"a","l","l","o","y">>, <<"s","s">>,
    <<"s","t","a","i","n","l","e","s","s">> }

C2_AllSentinels ==
  {"Non Standard OD", "Unknown OD", "Non STD", "Non IS Standard", "Non-Standard Tube"}

\* C2: for every od, wt in {null, NaN, negative, non-numeric string, number}
\* and every grade, categorize_OD and categorize_WT_schedule return (no
\* exception escapes) a non-empty string; with no matching reference entry the
\* result is the family's sentinel; a null grade gives "Unknown Grade" /
\* "Unknown"; a grade matching no WT family gives "Unknown".
C2_SentinelTotality ==
  /\ od_category # Pending =>
       /\ od_category \notin {"", Raised}
       /\ isna_str(grade) => od_category = "Unknown Grade"
       /\ (~isna_str(grade) /\ ~IsNumeric(od)) => od_category \in {"Non Standard OD", "Unknown OD"}
       /\ (C2_Family(grade) # "other"
             /\ (~IsNumeric(od) \/ od.v \notin C2_ODKeys(C2_ODTable(C2_Family(grade)))))
            => od_category = C2_ODSentinel(C2_Family(grade))
  /\ wt_schedule # Pending =>
       /\ wt_schedule \notin {"", Raised}
       /\ isna_str(grade) => wt_schedule = "Unknown"
       /\ (C2_Family(grade) # "other" /\ C2_NoWTMatch(C2_Family(grade), od, wt))
            => wt_schedule = C2_WTSentinel(C2_Family(grade))
       /\ (~isna_str(grade) /\ \A kw \in C2_WTKeywords : ~contains(kw, lower(strip(grade))))
            => wt_schedule = "Unknown"
       /\ (~isna_str(grade) /\ (~IsNumeric(od) \/ ~IsNumeric(wt)))
            => wt_schedule \in C2_AllSentinels \cup {"Unknown"}

C2_Witness ==
  /\ od = NullVal /\ wt = StrVal /\ grade = G_Tubes
  /\ od_category = "Unknown OD"
  /\ wt_schedule = "Non-Standard Tube"


-----------------------------------------------------------------------------
(* The OD table a grade selects                                            *)

\* the family named by the first substring test the grade passes
C15_Family(g) ==
  LET t == lower(strip(g))
  IN  IF contains(<<"i","s">>, t) THEN "IS"
      ELSE IF contains(<<"t","u","b","e">>, t) THEN "Tube"
      ELSE IF contains(<<"s","s">>, t) \/ contains(<<"s","t","a","i","n","l","e","s","s">>, t)
        THEN "SS"
      ELSE "CS & AS"

C15_Table(family) ==
  IF family = "IS" THEN od_map_IS
  ELSE IF family = "Tube" THEN od_map_Tube
  ELSE od_map_CS_AS

C15_NoMatch(family) == IF family = "Tube" THEN "Unknown OD" ELSE "Non Standard OD"

\* C15: categorize_OD looks the OD up in the table chosen by the substring
\* tests "is", then "tube", then "ss" or "stainless" (the CS & AS content),
\* else CS & AS, so "Unknown" uses the CS & AS table; a null grade gives
\* "Unknown Grade".
C15_TablePrecedence ==
  od_category # Pending =>
    IF isna_str(grade) THEN od_category = "Unknown Grade"
    ELSE LET family == C15_Family(grade)
             f == to_float(od)
         IN  IF f.ok /\ ~f.nan /\ \E i \in 1..Len(C15_Table(family)) : C15_Table(family)[i][1] = f.v
               THEN \E i \in 1..Len(C15_Table(family)) :
                      /\ C15_Table(family)[i][1] = f.v
                      /\ od_category = C15_Table(family)[i][2]
             ELSE od_category = C15_NoMatch(family)

\* a grade holding both "is" and "tube" with a Tube-table OD is sent to the
\* IS table, which does not list it
C15_Witness ==
  /\ grade = <<"I","S"," ","T","u","b","e","s">>
  /\ od = Num(63500)
  /\ od_category = "Non Standard OD"

-----------------------------------------------------------------------------
(* OD values written with stray trailing digits                            *)

\* the reference key an OD equals once rounded to 2 decimals, if any
C16_KeysNear(tab, x) == { i \in 1..Len(tab) : tab[i][1] = round_to(x, 100) }

\* C16: an OD whose value rounded to 2 decimals equals a key of the table its
\* grade selects (273.001 against 273.0) gets that key's size label, not the
\* no-match sentinel.
C16_ToleratesTrailingDigits ==
  (od_category # Pending /\ ~isna_str(grade) /\ od.k = "num") =>
    LET tab == C15_Table(C15_Family(grade))
    IN  C16_KeysNear(tab, od.v) # {} =>
          \E i \in C16_KeysNear(tab, od.v) : od_category = tab[i][2]

-----------------------------------------------------------------------------
(* The family of the OD table and of the WT bands of one grade             *)

C21_Has(word, g) == contains(word, lower(strip(g)))

C21_CarbonWord(g) ==
  \/ C21_Has(<<"c","s">>, g) \/ C21_Has(<<"c","a","r","b","o","n">>, g)
  \/ C21_Has(<<"a","s">>, g) \/ C21_Has(<<"a","l","l","o","y">>, g)

C21_StainlessWord(g) ==
  C21_Has(<<"s","s">>, g) \/ C21_Has(<<"s","t","a","i","n","l","e","s","s">>, g)

\* C21: categorize_WT_schedule picks the band family with the precedence of
\* categorize_OD: a grade containing "is" uses the IS bands, else one
\* containing "tube" the Tube lists, else the Stainless or Carbon bands of a
\* keyword it contains, so OD_Category and WT_Schedule come from one family.
C21_SameFamily ==
  (wt_schedule # Pending /\ ~isna_str(grade)) =>
    IF C21_Has(<<"i","s">>, grade) THEN wt_schedule = categorize_is(od, wt)
    ELSE IF C21_Has(<<"t","u","b","e">>, grade) THEN wt_schedule = categorize_WT_Tube(od, wt)
    ELSE IF C21_CarbonWord(grade) \/ C21_StainlessWord(grade)
      THEN \/ C21_StainlessWord(grade) /\ wt_schedule = categorize_stainless(od, wt)
           \/ C21_CarbonWord(grade) /\ wt_schedule = categorize_carbon(od, wt)
    ELSE TRUE

-----------------------------------------------------------------------------
(* The Stainless bands                                                     *)

C22_Order ==
  <<"Schedule 5S", "Schedule 10S", "Schedule 40S", "Schedule 80S", "Schedule 160S",
    "SCH XXS">>

\* C22: for a Stainless grade the WT schedule is the first label of the order
\* Schedule 5S, 10S, 40S, 80S, 160S, SCH XXS that has a reference pair within
\* tolerance, else "Non STD"; a pair within tolerance of a reference listed
\* under both 5S and 10S, such as (10.3, 1.24), is Schedule 5S.
C22_StainlessOrder ==
  (wt_schedule # Pending /\ grade \in StainlessGrades /\ IsNumeric(od) /\ IsNumeric(wt)) =>
    /\ \A i \in 1..Len(C22_Order) :
         (/\ label_matches(stainless_bands, C22_Order[i], od.v, wt.v)
          /\ \A j \in 1..(i - 1) : ~label_matches(stainless_bands, C22_Order[j], od.v, wt.v))
           => wt_schedule = C22_Order[i]
    /\ (\A i \in 1..Len(C22_Order) : ~label_matches(stainless_bands, C22_Order[i], od.v, wt.v))
         => wt_schedule = "Non STD"
    /\ \A p \in pairs_of(stainless_bands, "Schedule 5S")
                 \cap pairs_of(stainless_bands, "Schedule 10S") :
         (Abs(od.v - p[1]) <= 10000 /\ Abs(wt.v - p[2]) <= 2000) => wt_schedule = "Schedule 5S"

C22_Witness ==
  /\ grade = G_SS /\ od = Num(103000) /\ wt = Num(12400)
  /\ wt_schedule = "Schedule 5S"
  /\ <<103000, 12400>> \in pairs_of(stainless_bands, "Schedule 10S")

-----------------------------------------------------------------------------
(* The Tube lists                                                          *)

C23_Walls == {"Small Wall Tube", "Medium Wall Tube", "Heavy Wall Tube"}

\* C23: for a Tube grade the result is Small, Medium or Heavy Wall Tube
\* exactly when (od, wt) equals a pair of that list; every other pair, also
\* one within 1.0 / 0.2 of a listed pair or one of the enumerated
\* Non-Standard list, is "Non-Standard Tube"; the lists are pairwise disjoint.
C23_ExactMembership ==
  /\ \A a, b \in C23_Walls \cup {"Non-Standard Tube"} :
       a # b => pairs_of(tube_lists, a) \cap pairs_of(tube_lists, b) = {}
  /\ (wt_schedule # Pending /\ grade \in TubeGrades /\ IsNumeric(od) /\ IsNumeric(wt)) =>
       /\ \A lab \in C23_Walls :
            wt_schedule = lab <=> <<od.v, wt.v>> \in pairs_of(tube_lists, lab)
       /\ (\A lab \in C23_Walls : <<od.v, wt.v>> \notin pairs_of(tube_lists, lab))
            => wt_schedule = "Non-Standard Tube"

\* 0.19 above the listed wall 0.71 of the 6.35 tube, and no listed pair
C23_Witness ==
  /\ grade = G_Tubes /\ od = Num(63500) /\ wt = Num(9000)
  /\ label_matches(tube_lists, "Small Wall Tube", od.v, wt.v)
  /\ wt_schedule = "Non-Standard Tube"

\* the classes of categorize_is that list the pair (o, w)
C26_ClassesListing(o, w) ==
  { is_bands[i].label : i \in { j \in 1..Len(is_bands) : list_has(is_bands[j], o, w) } }

\* C26: for a grade resolving to IS, every reference pair enumerated under an
\* IS 1239 class is classified into that class: Light for the Light pairs,
\* Medium for the Medium pairs (among them (10.32, 2.00)) and Heavy for the
\* Heavy pairs (among them (21.3, 3.2)).
C26_ListedPairsInOwnClass ==
  (/\ wt_schedule # Pending
   /\ grade \in ISGrades
   /\ od.k = "num" /\ wt.k = "num") =>
    \A label \in C26_ClassesListing(od.v, wt.v) : wt_schedule = label
-----------------------------------------------------------------------------
(* Claims about grade derivation (checked under SpecGrade)                 *)

C10_TubePatterns ==
  { <<"T","U","B","E">>, <<"T","U","B">>, <<"S","T","5","2">>, <<"S","T","4","2">> }

C10_RuleA(u) == contains(<<"I","S">>, u) /\ ~startswith(u, <<"I","S">>)

C10_RuleB(u) ==
  /\ contains(<<"T">>, u) /\ ~startswith(u, <<"T">>)
  /\ \E pat \in C10_TubePatterns : contains(pat, u)

\* rule (c): the first prefix of AS, CS, SS, IS, T that the string starts with
C10_RuleC(u, combine) ==
  IF startswith(u, <<"A","S">>) THEN (IF combine THEN G_CS_AS ELSE G_AS)
  ELSE IF startswith(u, <<"C","S">>) THEN (IF combine THEN G_CS_AS ELSE G_CS)
  ELSE IF startswith(u, <<"S","S">>) THEN G_SS
  ELSE IF startswith(u, <<"I","S">>) THEN G_IS
  ELSE IF startswith(u, <<"T">>) THEN G_Tubes
  ELSE G_Unknown

\* C10: for a non-empty specification that is not a key of the mapping table
\* the pattern rules apply in the order (a) embedded IS, (b) embedded tube
\* pattern, (c) prefix AS/CS/SS/IS/T, (d) "Unknown"; "CSEWPIS1239PT1" gives
\* "IS" for both values of combine_cs_as.
C10_PatternOrder ==
  (/\ grade_type # PendingStr
   /\ ~isna_str(spec) /\ spec # <<>>
   /\ strip(spec) \notin DOMAIN SPECIFICATION_MAPPING) =>
    LET u == upper(strip(spec))
    IN  /\ C10_RuleA(u) => grade_type = G_IS
        /\ (~C10_RuleA(u) /\ C10_RuleB(u)) => grade_type = G_Tubes
        /\ (~C10_RuleA(u) /\ ~C10_RuleB(u)) => grade_type = C10_RuleC(u, combine_cs_as)
        /\ spec = S_CSEWPIS1239PT1 => grade_type = G_IS

C10_Witness ==
  /\ spec = S_CSEWPIS1239PT1
  /\ combine_cs_as = TRUE
  /\ S_CSEWPIS1239PT1 \notin DOMAIN SPECIFICATION_MAPPING
  /\ startswith(upper(spec), <<"C","S">>)
  /\ grade_type = G_IS


\* the grade the mapping table gives, with the optional collapse
C11_Mapped(label, combine) ==
  IF combine /\ label \in {G_AS, G_CS} THEN G_CS_AS
  ELSE IF combine /\ label = G_TUBES THEN G_Tubes
  ELSE label

\* C11: for a trimmed specification that is a key of the mapping table, the
\* dashboard / report derivation and the Compare Files derivation both return
\* the mapped grade (AS, CS collapsed to "CS & AS" and TUBES to "Tubes" when
\* combine_cs_as is true), whatever the pattern rules would give.
C11_MappingFirst ==
  (~isna_str(spec) /\ strip(spec) \in DOMAIN SPECIFICATION_MAPPING) =>
    /\ grade_type # PendingStr =>
         grade_type = C11_Mapped(SPECIFICATION_MAPPING[strip(spec)], combine_cs_as)
    /\ comparison_grade_type # PendingStr =>
         comparison_grade_type = C11_Mapped(SPECIFICATION_MAPPING[strip(spec)], combine_cs_as)
-----------------------------------------------------------------------------
(* Claims about Free For Sale (checked under SpecFreeForSale)              *)

\* a cell as a quantity: missing or non-numeric counts as 0
C3_Quantity(m) == IF m.k \in {"num", "int", "numstr"} THEN m.v ELSE 0

\* a cell as a dimension rounded to 3 decimals (no value if it is not numeric)
C3_Dimension(x) == IF x.k \in {"num", "int", "numstr"} THEN Num(round_to(x.v, 10)) ELSE NaNVal

C3_Key(r) ==
  <<(IF isna_str(r.Specification) THEN <<>> ELSE strip(r.Specification)),
    C3_Dimension(r.OD), C3_Dimension(r.WT)>>

\* total MT of the rows of one sheet that carry the key
C3_SheetTotal(df, key) ==
  SumSet({ i \in 1..Len(df) : C3_Key(df[i]) = key },
         [i \in 1..Len(df) |-> C3_Quantity(df[i].MT)])

IndexPermutations(n) == { p \in [1..n -> 1..n] : \A i, j \in 1..n : p[i] = p[j] => i = j }

Permuted(s, p) == [i \in 1..Len(s) |-> s[p[i]]]

C27_SheetMT(df) ==
  SumSet(1..Len(df), [i \in 1..Len(df) |-> C3_Quantity(df[i].MT)])

\* sum of MT over the rows of the result
C27_OutputMT ==
  SumSet(free_for_sale_df.rows, [r \in free_for_sale_df.rows |-> r.MT.v])

\* C27: calculate_free_for_sale loses no quantity: the MT of its output sums
\* to total Stock MT - total Reservations MT + total Incoming MT over all
\* input rows (up to 0.005 MT of rounding), rows whose OD or WT is null or non-numeric
\* included.
C27_NoQuantityLost ==
  free_for_sale_df.done =>
    Abs(C27_OutputMT
        - (C27_SheetMT(stock_df) - C27_SheetMT(reservations_df) + C27_SheetMT(incoming_df)))
      <= 50
-----------------------------------------------------------------------------
(* Claims about the comparison (checked under SpecCompare)                 *)

C4_Statuses == {"Added", "Removed", "Increased", "Decreased", "Unchanged"}

C4_InputKeys ==
  { create_product_key(file1_data[i]) : i \in 1..Len(file1_data) }
    \cup { create_product_key(file2_data[i]) : i \in 1..Len(file2_data) }

\* C4: the product keys of the result are exactly the union of the keys of
\* the two inputs, one row per key, and every status is one of the five.
C4_KeyCompleteness ==
  comparison_df.done =>
    /\ { comparison_df.rows[i].product_key : i \in 1..Len(comparison_df.rows) } = C4_InputKeys
    /\ Len(comparison_df.rows) = Cardinality(C4_InputKeys)
    /\ \A i \in 1..Len(comparison_df.rows) : comparison_df.rows[i].status \in C4_Statuses

C4_Witness ==
  /\ comparison_df.done
  /\ Len(file1_data) = 2 /\ Len(file2_data) = 1
  /\ file1_data[1].product_key = file1_data[2].product_key
  /\ file2_data[1].product_key # file1_data[1].product_key
  /\ Len(comparison_df.rows) = 2
  /\ \E i \in 1..2 : comparison_df.rows[i].status = "Added"
  /\ \E i \in 1..2 : comparison_df.rows[i].status = "Removed"

C5_InFile(df, key) == \E i \in 1..Len(df) : create_product_key(df[i]) = key

C5_RowRule(r) ==
  LET in1 == C5_InFile(file1_data, r.product_key)
      in2 == C5_InFile(file2_data, r.product_key)
      mt1 == r.old_stock
      mt2 == r.new_stock
  IN  /\ (~in1 /\ in2) =>
           r.status = "Added" /\ r.delta = mt2 /\ ~r.is_zero_difference
      /\ (in1 /\ ~in2) =>
           r.status = "Removed" /\ r.delta = 0 - mt1 /\ ~r.is_zero_difference
      /\ (in1 /\ in2) =>
           /\ r.delta = round_to(mt2 - mt1, 10)
           /\ r.status = (IF Abs(r.delta) <= 10 THEN "Unchanged"
                          ELSE IF r.delta > 10 THEN "Increased" ELSE "Decreased")
           /\ r.is_zero_difference = (Abs(r.delta) <= 10 /\ Abs(mt1) > 10 /\ Abs(mt2) > 10)
      /\ r.is_zero_difference => r.status = "Unchanged"

\* C5: status, delta and is_zero_difference of every row follow from the
\* presence of the key in each file and the two summed quantities: Added with
\* delta = mt2, Removed with delta = -mt1, otherwise delta = mt2 - mt1 rounded
\* to 3 decimals and Unchanged / Increased / Decreased around 0.001;
\* is_zero_difference only for an Unchanged row with both quantities above 0.001.
C5_StatusRule ==
  comparison_df.done =>
    \A i \in 1..Len(comparison_df.rows) : C5_RowRule(comparison_df.rows[i])

C5_Witness ==
  /\ comparison_df.done
  /\ \E i \in 1..Len(comparison_df.rows) :
       LET r == comparison_df.rows[i]
       IN  /\ C5_InFile(file1_data, r.product_key) /\ C5_InFile(file2_data, r.product_key)
           /\ r.old_stock = 10000 /\ r.new_stock = 10010 /\ r.delta = 10
           /\ r.status = "Unchanged" /\ r.is_zero_difference

\* the quantity of a cell as written in the file (non-numeric counts as 0)
C6_Quantity(m) == IF m.k \in {"num", "int", "numstr"} THEN m.v ELSE 0

\* the summed quantity of a key in a file
C6_Sum(df, key) ==
  SumSet({ i \in 1..Len(df) : create_product_key(df[i]) = key },
         [i \in 1..Len(df) |-> C6_Quantity(df[i].MT)])

\* C6: a key in both files whose summed quantities differ by exactly 0.0011
\* is Increased (or Decreased for -0.0011) and never Unchanged; a difference
\* of exactly 0.0009 is Unchanged.
C6_ToleranceBoundary ==
  comparison_df.done =>
    \A i \in 1..Len(comparison_df.rows) :
      LET r == comparison_df.rows[i]
          d == C6_Sum(file2_data, r.product_key) - C6_Sum(file1_data, r.product_key)
      IN  (C5_InFile(file1_data, r.product_key) /\ C5_InFile(file2_data, r.product_key)) =>
            /\ d = 11 => r.status = "Increased"
            /\ d = 0 - 11 => r.status = "Decreased"
            /\ Abs(d) = 9 => r.status = "Unchanged"


-----------------------------------------------------------------------------
(* Files that do not have the required structure                           *)

\* a file with rows that lacks Specification, OD or WT
C17_Lacking(df) == df # <<>> /\ {"Specification", "OD", "WT"} \ DOMAIN df[1] # {}

\* the columns the comparison adds to its inputs
C17_Untouched(df) ==
  \A i \in 1..Len(df) : DOMAIN df[i] \cap {"product_key", "mt_file1", "mt_file2"} = {}

\* C17: when either input lacks Specification, OD or WT the call returns an
\* empty result with no comparison rows and has added no column to either
\* input.
C17_ValidationFirst ==
  (comparison_df.done /\ (C17_Lacking(file1_data) \/ C17_Lacking(file2_data))) =>
    /\ comparison_df.rows = <<>>
    /\ C17_Untouched(file1_data)
    /\ C17_Untouched(file2_data)

\* the second file lacks a column and the first, complete, has rows
C17_Witness ==
  /\ comparison_df.done
  /\ C17_Lacking(file2_data) /\ ~C17_Lacking(file1_data) /\ file1_data # <<>>
  /\ comparison_df.rows = <<>>
  /\ C17_Untouched(file1_data)

-----------------------------------------------------------------------------
(* Inputs of the aggregation functions                                     *)

\* C19: calculate_free_for_sale, create_comparison_data, add_categorizations
\* and generate_priority_items leave every input record set exactly as it
\* was passed in: no step changes a sheet or a file.
C19_InputsUntouched ==
  [][ /\ stock_df' = stock_df /\ reservations_df' = reservations_df
      /\ incoming_df' = incoming_df
      /\ file1_data' = file1_data /\ file2_data' = file2_data ]_vars

\* a numeric cell rounded to 3 decimals (no value if it is not a number)
C28_Number(x) == IF x.k \in {"num", "int"} THEN round_to(x.v, 10) ELSE -1

\* the two rows name the same product: Specification equal after trimming,
\* OD and WT numerically equal after rounding to 3 decimals
C28_SameProduct(a, b) ==
  /\ ~isna_str(a.Specification) /\ ~isna_str(b.Specification)
  /\ strip(a.Specification) = strip(b.Specification)
  /\ a.OD.k \in {"num", "int"} /\ b.OD.k \in {"num", "int"}
  /\ a.WT.k \in {"num", "int"} /\ b.WT.k \in {"num", "int"}
  /\ C28_Number(a.OD) = C28_Number(b.OD)
  /\ C28_Number(a.WT) = C28_Number(b.WT)

\* C28: two rows of the two files that name the same product, whatever the
\* numeric formatting of OD and WT (273 and 273.0), get the same product key
\* and are compared as one product, not reported as one Removed and one Added.
C28_FormatIndependentKeys ==
  comparison_df.done =>
    \A i \in 1..Len(file1_data) : \A j \in 1..Len(file2_data) :
      C28_SameProduct(file1_data[i], file2_data[j]) =>
        /\ file1_data[i].product_key = file2_data[j].product_key
        /\ \A n \in 1..Len(comparison_df.rows) :
             comparison_df.rows[n].product_key
                 \in {file1_data[i].product_key, file2_data[j].product_key}
               => comparison_df.rows[n].status \notin {"Added", "Removed"}

\* C29: the Compare Files tab labels a record as the dashboard does: the
\* WT_Schedule of every comparison row is what the dashboard's
\* categorize_WT_schedule returns for the row's OD, WT and Grade (273.0, 9.27,
\* "CS" is "STD").
C29_SameLabelAsDashboard ==
  comparison_df.done =>
    \A n \in 1..Len(comparison_df.rows) :
      LET r == comparison_df.rows[n]
      IN  r.WT_Schedule = categorize_WT_schedule(r.OD, r.WT, r.Grade)
-----------------------------------------------------------------------------
(* Claims about the priority list (checked under SpecPriority)             *)

\* Stock + Incoming - Reservation of a specification, as entered
C7_Total(sp) ==
  spec_sum(stock_df, sp) + spec_sum(incoming_df, sp) - spec_sum(reservations_df, sp)

\* four specifications with totals 50, 30, 29.999 and -5, threshold 30
C7_Scenario ==
  /\ specs_of(stock_df) \cup specs_of(reservations_df) \cup specs_of(incoming_df)
       = {S_A, S_B, S_C, S_D}
  /\ C7_Total(S_A) = 500000 /\ C7_Total(S_B) = 300000
  /\ C7_Total(S_C) = 299990 /\ C7_Total(S_D) = 0 - 50000
  /\ threshold_mt = 300000
  /\ top_n >= 2

\* C7: in the scenario the result is exactly the specifications with totals
\* 50 and 30, in that order; 29.999 and -5 are excluded.
C7_BoundaryScenario ==
  (priority_items.done /\ C7_Scenario) =>
    /\ priority_items.success
    /\ Len(priority_items.rows) = 2
    /\ priority_items.rows[1].Specification = S_A
    /\ priority_items.rows[2].Specification = S_B


\* the specifications of the three inputs
C14_Specs == specs_of(stock_df) \cup specs_of(reservations_df) \cup specs_of(incoming_df)

\* Stock + Incoming - Reservation of a specification
C14_Total(sp) ==
  spec_sum(stock_df, sp) + spec_sum(incoming_df, sp) - spec_sum(reservations_df, sp)

\* the specifications whose Total reaches the threshold
C14_Qualifying == { sp \in C14_Specs : C14_Total(sp) >= threshold_mt }

C14_Min(a, b) == IF a < b THEN a ELSE b

\* C14: for every threshold and every top_n >= 0 the call succeeds and
\* returns min(top_n, q) rows, q the number of specifications whose Total
\* reaches the threshold; the Totals are non-increasing, each reaches the
\* threshold, and no omitted qualifying specification exceeds a returned one.
C14_TopNOfQualifying ==
  (priority_items.done /\ top_n >= 0) =>
    LET rows == priority_items.rows
        returned == { rows[k].Specification : k \in 1..Len(rows) }
    IN  /\ priority_items.success
        /\ Len(rows) = C14_Min(top_n, Cardinality(C14_Qualifying))
        /\ \A a, b \in 1..Len(rows) :
             a < b => rows[a].Total_Free_For_Sale_MT >= rows[b].Total_Free_For_Sale_MT
        /\ \A k \in 1..Len(rows) : rows[k].Total_Free_For_Sale_MT >= threshold_mt
        /\ \A sp \in C14_Qualifying :
             strip(sp) \notin returned =>
               \A k \in 1..Len(rows) : C14_Total(sp) <= rows[k].Total_Free_For_Sale_MT

\* a non-empty input without Specification or without MT
C18_Lacking(df) == df # <<>> /\ {"Specification", "MT"} \ DOMAIN df[1] # {}

C18_SomeLacking ==
  C18_Lacking(stock_df) \/ C18_Lacking(reservations_df) \/ C18_Lacking(incoming_df)

\* Stock + Incoming - Reservation, an empty input counting 0
C18_Total(sp) ==
  (IF stock_df = <<>> THEN 0 ELSE spec_sum(stock_df, sp))
  + (IF incoming_df = <<>> THEN 0 ELSE spec_sum(incoming_df, sp))
  - (IF reservations_df = <<>> THEN 0 ELSE spec_sum(reservations_df, sp))

\* the returned triple is (True, table, None) or (False, None, message)
C18_Shape ==
  \/ /\ priority_items.success /\ ~priority_items.none /\ priority_items.error_msg = "None"
  \/ /\ ~priority_items.success /\ priority_items.none /\ priority_items.error_msg # "None"

\* C18: generate_priority_items returns a triple in every case; a non-empty
\* input lacking Specification or MT gives (False, None, message); when no
\* specification's Total reaches the threshold the result is (True, empty
\* table with exactly the columns Specification and Total_Free_For_Sale_MT,
\* None); an empty input contributes 0 to every Total.
C18_NeverRaises ==
  priority_items.done =>
    /\ C18_Shape
    /\ C18_SomeLacking =>
         ~priority_items.success /\ priority_items.none /\ priority_items.error_msg # "None"
    /\ (~C18_SomeLacking /\ \A sp \in C14_Specs : C18_Total(sp) < threshold_mt) =>
         /\ priority_items.success /\ ~priority_items.none
         /\ priority_items.rows = <<>>
         /\ priority_items.columns = <<"Specification", "Total_Free_For_Sale_MT">>
         /\ priority_items.error_msg = "None"
    /\ (priority_items.success /\ ~priority_items.none) =>
         \A k \in 1..Len(priority_items.rows) :
           \E sp \in C14_Specs :
             /\ strip(sp) = priority_items.rows[k].Specification
             /\ priority_items.rows[k].Total_Free_For_Sale_MT = round_to(C18_Total(sp), 100)
-----------------------------------------------------------------------------
(* Claims about the heatmap table (checked under SpecHeatmap)              *)

C8_Records ==
  heatmap_records(stock_df, reservations_df, incoming_df, specification,
                  SPECIFICATION_MAPPING)

C8_DataRows == { heatmap.index[n] : n \in 1..(Len(heatmap.index) - 1) }

C8_DataCols == { heatmap.columns[n] : n \in 1..(Len(heatmap.columns) - 1) }

C8_HasTotals ==
  /\ heatmap.index # <<>> /\ heatmap.index[Len(heatmap.index)] = "Total"
  /\ heatmap.columns # <<>> /\ heatmap.columns[Len(heatmap.columns)] = "Total"

\* the summed MT of the records of one cell, before any rounding
C8_Quantity(o, w) ==
  LET grp == { x \in C8_Records : x.OD_Category = o /\ x.WT_Schedule = w }
  IN  SumSet(grp, [x \in grp |-> x.MT])

C9_FamilyList ==
  LET gt == derive_grade_type_from_spec(specification, SPECIFICATION_MAPPING)
  IN  IF gt = G_CS_AS THEN CS_AS_WT
      ELSE IF gt = G_SS THEN SS_WT
      ELSE IF gt = G_IS THEN IS_WT
      ELSE TUBES_WT

\* C9: every record of the specification carries an OD_Category of OD_ORDER
\* and a WT_Schedule of its family's column list, and the grand Total of the
\* table is the summed MT of all the records of the specification.
C9_EveryRecordDisplayed ==
  (heatmap.done /\ ~heatmap.error) =>
    /\ \A x \in C8_Records :
         /\ x.OD_Category \in members(OD_ORDER)
         /\ x.WT_Schedule \in members(C9_FamilyList)
    /\ heatmap.values["Total"]["Total"]
         = round_to(SumSet(C8_Records, [x \in C8_Records |-> x.MT]), 100)


-----------------------------------------------------------------------------
(* The rows and columns kept in the table                                  *)

\* the summed MT of the records recs of one cell
C24_Quantity(recs, o, w) ==
  LET grp == { x \in recs : x.OD_Category = o /\ x.WT_Schedule = w }
  IN  SumSet(grp, [x \in grp |-> x.MT])

\* the data rows and columns appear in the order of their lists
C24_InOrder(recs) ==
  /\ SubSeq(heatmap.index, 1, Len(heatmap.index) - 1)
       = SelectSeq(OD_ORDER, LAMBDA o : o \in C8_DataRows)
  /\ SubSeq(heatmap.columns, 1, Len(heatmap.columns) - 1)
       = wt_schedule_columns(recs,
                             derive_grade_type_from_spec(specification, SPECIFICATION_MAPPING))

\* C24 as stated: an OD row is in the returned table exactly when one of its
\* cells over the WT columns, as the table shows them, is non-zero; rows are
\* in OD_ORDER order, columns in the WT-schedule order, and the Total row and
\* column are there even when every data row was dropped.
C24_RowsWithNonZeroCells ==
  (heatmap.done /\ ~heatmap.error) =>
    LET recs == C8_Records
        occupied == { x.OD_Category : x \in recs }
    IN  /\ C8_HasTotals
        /\ C24_InOrder(recs)
        /\ \A o \in C8_DataRows : \E w \in C8_DataCols : heatmap.values[o][w] # 0
        /\ \A o \in (members(OD_ORDER) \cap occupied) \ C8_DataRows :
             \A w \in C8_DataCols : round_to(C24_Quantity(recs, o, w), 100) = 0

\* C24 (amended): an OD row is in the returned table exactly when the summed
\* quantity of one of its cells is non-zero before the rounding to 2
\* decimals; rows are in OD_ORDER order, columns in the WT-schedule order, and
\* the Total row and column are there even when every data row was dropped.
C24_RowsWithNonZeroQuantity ==
  (heatmap.done /\ ~heatmap.error) =>
    LET recs == C8_Records
        occupied == { x.OD_Category : x \in recs }
    IN  /\ C8_HasTotals
        /\ C24_InOrder(recs)
        /\ C8_DataRows \subseteq members(OD_ORDER)
        /\ \A o \in C8_DataRows : \E w \in C8_DataCols : C24_Quantity(recs, o, w) # 0
        /\ \A o \in (members(OD_ORDER) \cap occupied) \ C8_DataRows :
             \A w \in C8_DataCols : C24_Quantity(recs, o, w) = 0

\* a row kept for a quantity of 0.004, which the table shows as 0.0
C24_Witness ==
  /\ heatmap.done /\ ~heatmap.error
  /\ heatmap.index = <<"1/2\"", "Total">>
  /\ heatmap.columns = <<"STD", "Total">>
  /\ heatmap.values["1/2\""]["STD"] = 0
  /\ C8_Quantity("1/2\"", "STD") = 40
-----------------------------------------------------------------------------
(* The end to end small case                                               *)

C12_Stock == Row(S_CSSMP106B, Num(2730000), Num(92700), PyInt(100000))

C12_Incoming == Row(S_CSSMP106B, Num(2730000), Num(92700), PyInt(50000))

C12_Reservations == Row(S_CSSMP106B, Num(2730000), Num(92700), PyInt(30000))

C12_Scenario ==
  /\ stock_df = <<C12_Stock>>
  /\ incoming_df = <<C12_Incoming>>
  /\ reservations_df = <<C12_Reservations>>
  /\ specification = S_CSSMP106B

\* C12: with Stock CSSMP106B 273.0 x 9.27 MT 10, Incoming MT 5 and
\* Reservations MT 3 of the same key, the Free For Sale path yields exactly
\* one record, with MT 12.0, OD_Category 10" and WT_Schedule STD.
C12_EndToEnd ==
  (C12_Scenario /\ df_filtered.done) =>
    /\ Cardinality(df_filtered.rows) = 1
    /\ \A x \in df_filtered.rows :
         /\ x.OD = Num(2730000) /\ x.WT = Num(92700)
         /\ x.MT = 120000
         /\ x.OD_Category = "10\""
         /\ x.WT_Schedule = "STD"

C12_Witness ==
  /\ C12_Scenario /\ df_filtered.done
  /\ \E x \in df_filtered.rows : x.MT = 120000 /\ x.WT_Schedule = "STD"

-----------------------------------------------------------------------------
(* The column order of a selection spanning several grade families         *)

C13_Families == grade_types_of(spec_filter, SPECIFICATION_MAPPING) \cap {G_CS_AS, G_SS, G_IS, G_Tubes}

\* the families present, in the order CS & AS, SS, IS, Tubes
C13_PriorityOrder == SelectSeq(<<G_CS_AS, G_SS, G_IS, G_Tubes>>, LAMBDA g : g \in C13_Families)

C13_MultiFamily ==
  /\ spec_filter # <<>> /\ S_All \notin members(spec_filter)
  /\ Cardinality(C13_Families) >= 2

\* C13: when the selected specifications belong to more than one grade
\* family, the WT_Schedule column list is the families' lists concatenated in
\* the order CS & AS, SS, IS, Tubes, each schedule once at its first position.
C13_FamilyPriorityOrder ==
  (C13_MultiFamily /\ pivot_columns # PendingStr) =>
    pivot_columns = remove_duplicates(extend_all(C13_PriorityOrder), {})

-----------------------------------------------------------------------------
(* Repeated calls of the classification functions                         *)

\* C20: for fixed arguments categorize_OD, categorize_WT_schedule and the
\* memoised derive_grade_from_spec return the same label on every call,
\* whatever calls were made before: each result is the one the function body
\* computes from the arguments of that call.
C20_SameLabelEveryCall ==
  /\ od_category # Pending => od_category = categorize_OD(od, grade)
  /\ wt_schedule # Pending => wt_schedule = categorize_WT_schedule(od, wt, grade)
  /\ calls > 0 =>
       grade_type = derive_grade_uncached(spec_arg, combine_cs_as, SPECIFICATION_MAPPING)

-----------------------------------------------------------------------------
(* Claims about run_inventory_reporting_pipeline                            *)

\* the step-4 check has passed: the file exists and its size is positive
C25_Verified == pdf_path # "None" /\ pdf_size > 0

C25_Returned == pc = "done" /\ pipeline_result = pipeline_success(pdf_path)

\* C25: once the PDF has been generated and verified, the run returns
\* (True, pdf_path) whatever the email step does; send_email is called at
\* most once in a run, only after the PDF check has passed, and never in a
\* dry run.
C25_EmailNeverFailsRun ==
  /\ [](send_email_calls <= 1)
  /\ [](send_email_calls > 0 => (C25_Verified /\ ~dry_run_email))
  /\ []((pc = "done" /\ C25_Verified) => C25_Returned)
  /\ (C25_Verified ~> C25_Returned)

\* a verified PDF, send_email raised, and the run returned (True, pdf_path)
C25_Witness ==
  /\ C25_Verified
  /\ send_email_calls = 1
  /\ send_email_outcome = "raised"
  /\ C25_Returned

-----------------------------------------------------------------------------
(* Claims about the Compare Files session state (SpecSession)              *)

\* the comparison of the current selection: the two selected files, older
\* first, and the selected dataset
C30_Current ==
  LET sorted == auto_sorted(file1_selection, file2_selection)
  IN  [file1 |-> sorted[1], file2 |-> sorted[2], dataset |-> dataset_selection]

C30_OfCurrentSelection(data) ==
  data # NoData =>
    /\ file1_selection # "None" /\ file2_selection # "None"
    /\ file1_selection # file2_selection
    /\ data = C30_Current

\* C30: after any sequence of render_comparison_tab runs the session state
\* holds comparison_data only if it was computed from the currently selected
\* pair of distinct files (older as file 1) and the currently selected
\* dataset, and get_comparison_data_for_dashboard returns no comparison of
\* another selection.
C30_OnlyCurrentComparison ==
  /\ C30_OfCurrentSelection(session_state.comparison_data)
  /\ C30_OfCurrentSelection(dashboard_df)
=============================================================================
